---- MODULE Spec2Model ----
(***************************************************************************)
(* A model of TAMkin's partition-function engine (lib/partf.py): the       *)
(* contribution terms, the PartFun composite that owns a Python list of    *)
(* terms, evaluation of the helper functions and the text dump.            *)
(*                                                                         *)
(* Python objects live on a heap (objs), Python lists are objects too      *)
(* (lists), so that aliasing of a term or of a list between two PartFun    *)
(* objects is visible.  Real numbers are exact symbolic values: a finite   *)
(* linear combination, with rational coefficients, of atoms (1, ln(x),     *)
(* ...) times powers of the physical constants boltzmann and pi.           *)
(***************************************************************************)
EXTENDS Integers, Sequences, FiniteSets, TLC

VARIABLES
    objs,    \* the heap of term objects: objs[id] is the object's attributes
    lists,   \* the Python list objects holding terms: lists[id] is a sequence of term ids
    pfs,     \* the PartFun objects constructed so far
    user,    \* user[i]: the constructor call (index in TermTemplates) that made object i
    ncalls,  \* the number of PartFun(...) calls made so far
    ret      \* what the last call returned, raised or wrote

vars == <<objs, lists, pfs, user, ncalls, ret>>

-----------------------------------------------------------------------------
(* Bounds of the model.                                                    *)

\* the number of term objects the user constructs
MaxUserTerms == 2

-----------------------------------------------------------------------------
(* Python's None and optional values.                                      *)

None == << >>
Some(x) == <<x>>
IsNone(o) == o = << >>
Get(o) == o[1]

-----------------------------------------------------------------------------
(* Exact rational numbers <<numerator, denominator>>, denominator > 0,     *)
(* in lowest terms.                                                        *)

Abs(i) == IF i < 0 THEN -i ELSE i

RECURSIVE Gcd(_, _)
Gcd(a, b) == IF b = 0 THEN a ELSE Gcd(b, a % b)

RatNorm(n, d) ==
    LET s == IF d < 0 THEN -1 ELSE 1
        g == Gcd(Abs(n), Abs(d))
    IN  <<(s * n) \div g, (s * d) \div g>>

Rat(i) == <<i, 1>>
RatZero == Rat(0)
RatOne == Rat(1)
RatHalf == <<1, 2>>
RatAdd(p, q) == RatNorm(p[1] * q[2] + q[1] * p[2], p[2] * q[2])
RatNeg(p) == <<-p[1], p[2]>>
RatSub(p, q) == RatAdd(p, RatNeg(q))
RatMul(p, q) == RatNorm(p[1] * q[1], p[2] * q[2])
RatDiv(p, q) == RatNorm(p[1] * q[2], p[2] * q[1])
RatPos(p) == p[1] > 0
RatLess(p, q) == p[1] * q[2] < q[1] * p[2]

RECURSIVE IntPow(_, _)
IntPow(b, e) == IF e = 0 THEN 1 ELSE b * IntPow(b, e - 1)

\* temp**n for a Python number temp # 0, or for temp = 0 and n >= 0
\* (0**0 is 1 in Python)
RatPow(p, n) ==
    IF n >= 0 THEN <<IntPow(p[1], n), IntPow(p[2], n)>>
    ELSE RatNorm(IntPow(p[2], -n), IntPow(p[1], -n))

-----------------------------------------------------------------------------
(* Symbolic real values.  An atom is [kp, pip, fn, arg]: boltzmann^kp *    *)
(* pi^pip * fn(arg), where fn = "one" is the number 1.  A value is a set   *)
(* of [a |-> atom, c |-> rational] with distinct atoms and non-zero        *)
(* coefficients; {} is 0.                                                  *)

Atom(kp, pip, fn, arg) == [kp |-> kp, pip |-> pip, fn |-> fn, arg |-> arg]
One == Atom(0, 0, "one", << >>)

VZero == {}
VTerm(c, a) == IF c = RatZero THEN {} ELSE {[a |-> a, c |-> c]}
VRat(c) == VTerm(c, One)
VInt(i) == VRat(Rat(i))

Coef(v, a) == IF \E e \in v : e.a = a THEN (CHOOSE e \in v : e.a = a).c ELSE RatZero
Atoms(v) == {e.a : e \in v}

VAdd(v, w) ==
    {e \in {[a |-> a, c |-> RatAdd(Coef(v, a), Coef(w, a))] : a \in Atoms(v) \cup Atoms(w)} :
        e.c # RatZero}
VScale(r, v) == IF r = RatZero THEN {} ELSE {[a |-> e.a, c |-> RatMul(r, e.c)] : e \in v}
VNeg(v) == VScale(Rat(-1), v)
VSub(v, w) == VAdd(v, VNeg(w))
\* multiplication by boltzmann^dk * pi^dpi
VShift(v, dk, dpi) ==
    {[a |-> Atom(e.a.kp + dk, e.a.pip + dpi, e.a.fn, e.a.arg), c |-> e.c] : e \in v}
VMulK(v) == VShift(v, 1, 0)
VDivK(v) == VShift(v, -1, 0)

\* a monomial c * boltzmann^kp * pi^pip * planck^hp * atm^atmp, the argument of a logarithm
Mono(c, kp, pip, hp, atmp) == [c |-> c, kp |-> kp, pip |-> pip, hp |-> hp, atmp |-> atmp]
MonoRat(c) == Mono(c, 0, 0, 0, 0)
\* numpy.log(x) for x > 0; log(1) is exactly 0
VLog(m) == IF m = MonoRat(RatOne) THEN VZero ELSE VTerm(RatOne, Atom(0, 0, "ln", m))

-----------------------------------------------------------------------------
(* The outcome of a call: a value, or the exception it raised.             *)

Ok(v) == [ok |-> TRUE, v |-> v]
Raise(type, msg) == [ok |-> FALSE, err |-> [type |-> type, msg |-> msg]]
NotImplementedError == Raise("NotImplementedError", "")
ZeroDivisionError == Raise("ZeroDivisionError", "")
TypeError(msg) == Raise("TypeError", msg)
ValueError(msg) == Raise("ValueError", msg)
NameError(msg) == Raise("NameError", msg)

\* r1 + r2, the left operand evaluated first
RAdd(r1, r2) == IF ~r1.ok THEN r1 ELSE IF ~r2.ok THEN r2 ELSE Ok(VAdd(r1.v, r2.v))
RSub(r1, r2) == IF ~r1.ok THEN r1 ELSE IF ~r2.ok THEN r2 ELSE Ok(VSub(r1.v, r2.v))
RScale(c, r) == IF ~r.ok THEN r ELSE Ok(VScale(c, r.v))
RMulK(r) == IF ~r.ok THEN r ELSE Ok(VMulK(r.v))

\* temp**n as Python evaluates it: 0 to a negative power raises
PyPow(temp, n) ==
    IF temp = RatZero /\ n < 0 THEN ZeroDivisionError ELSE Ok(VRat(RatPow(temp, n)))
\* the rational temp**n where PyPow does not raise
Pow(temp, n) == RatPow(temp, n)
PowFails(temp, n) == temp = RatZero /\ n < 0

-----------------------------------------------------------------------------
(* The normal-mode results (NMA objects) the partition functions are built *)
(* from: read-only inputs.  inertia_tensor is a diagonal tensor, given by  *)
(* its diagonal; zeros holds indexes into freqs (1-based here); rotsym is  *)
(* what molmod's Molecule(numbers, coordinates).compute_rotsym() returns.  *)

NMAs ==
    <<[title |-> "A", energy |-> Rat(-7), multiplicity |-> Some(1), periodic |-> FALSE,
       mass |-> 12, masses |-> <<10, 2>>, inertia_tensor |-> <<3, 0, 3>>,
       symmetry_number |-> 2, rotsym |-> 2,
       freqs |-> <<-4, 0, 3, 6>>, zeros |-> <<2>>],
      [title |-> "B", energy |-> Rat(-9), multiplicity |-> None, periodic |-> TRUE,
       mass |-> 30, masses |-> <<30>>, inertia_tensor |-> <<5, 4, 2>>,
       symmetry_number |-> 0, rotsym |-> 1,
       freqs |-> <<0, 5>>, zeros |-> <<1>>],
      [title |-> "C", energy |-> Rat(-3), multiplicity |-> Some(2), periodic |-> FALSE,
       mass |-> 20, masses |-> <<8, 12>>, inertia_tensor |-> <<6, 2, 4>>,
       symmetry_number |-> 0, rotsym |-> 3,
       freqs |-> <<0, 0, 2>>, zeros |-> <<1>>]>>

NmaIds == DOMAIN NMAs

-----------------------------------------------------------------------------
(* Small sequence helpers.                                                 *)

RECURSIVE SeqSum(_)
SeqSum(s) == IF s = << >> THEN 0 ELSE s[1] + SeqSum(Tail(s))

Range(s) == {s[i] : i \in DOMAIN s}

\* s[mask] for a boolean mask over the positions of s: the elements at the
\* positions where the mask holds, in order (from position i on)
RECURSIVE Pick(_, _, _)
Pick(s, mask, i) ==
    IF i > Len(s) THEN << >>
    ELSE (IF mask[i] THEN <<s[i]>> ELSE << >>) \o Pick(s, mask, i + 1)

\* numpy.linalg.eigvalsh of a diagonal 3x3 tensor: its diagonal, ascending
Min2(a, b) == IF a <= b THEN a ELSE b
Max2(a, b) == IF a <= b THEN b ELSE a
eigvalsh(d) ==
    LET lo == Min2(d[1], Min2(d[2], d[3]))
        hi == Max2(d[1], Max2(d[2], d[3]))
    IN  <<lo, d[1] + d[2] + d[3] - lo - hi, hi>>

-----------------------------------------------------------------------------
(* IdealGasLaw.  A pressure is a rational multiple of atm.                 *)

IdealGasLaw(pressure, dim) ==
    IF IsNone(pressure) /\ dim # 3
    THEN TypeError("The pressure is not given and the system is not three-dimensional.")
    ELSE [ok |-> TRUE,
          obj |-> [pressure |-> IF IsNone(pressure) THEN RatOne ELSE Get(pressure),
                   dim |-> dim]]

\* a pv that leaves out the temperature
IdealGasLaw_pv_const(self, temp) == VMulK(VInt(1))

IdealGasLaw_pv(self, temp) == VMulK(VRat(temp))

\* a pv0 whose first branch at T = 0 also takes n = -1
IdealGasLaw_pv0_zero(self, temp, n) ==
    IF temp = RatZero THEN
        IF n >= -1 THEN Ok(VZero)
        ELSE NotImplementedError
    ELSE Ok(VMulK(VRat(Pow(temp, n + 1))))

IdealGasLaw_pv0(self, temp, n) ==
    IF temp = RatZero THEN
        IF n > -1 THEN Ok(VZero)
        ELSE IF n = -1 THEN Ok(VMulK(VInt(1)))
        ELSE NotImplementedError
    ELSE Ok(VMulK(VRat(Pow(temp, n + 1))))

IdealGasLaw_pv1(self, temp, n) == Ok(VZero)

IdealGasLaw_pv2(self, temp, n) == Ok(VZero)

IdealGasLaw_helper0(self, temp, n) ==
    IF temp = RatZero THEN
        IF n > 0 THEN Ok(VZero) ELSE NotImplementedError
    ELSE Ok(VScale(Pow(temp, n), VLog(Mono(RatDiv(temp, self.pressure), 1, 0, 0, -1))))

IdealGasLaw_helper1(self, temp, n) ==
    IF temp = RatZero THEN NotImplementedError ELSE Ok(VRat(Pow(temp, n - 1)))

IdealGasLaw_helper2(self, temp, n) ==
    IF temp = RatZero THEN NotImplementedError ELSE Ok(VNeg(VRat(Pow(temp, n - 2))))

-----------------------------------------------------------------------------
(* The contribution terms.  Every term object carries cls, name and the    *)
(* attributes its class sets; ninit counts the init_part_fun calls it has  *)
(* received (history, not an attribute of the Python object).              *)

\* Python's order on the term names (str comparison)
NameOrder ==
    <<"electronic", "energy", "pcm_correction", "rotational", "solvent", "terms",
      "translational", "vibrational">>
NameRank(name) == CHOOSE i \in DOMAIN NameOrder : NameOrder[i] = name

Electronic(multiplicity) ==
    [cls |-> "Electronic", name |-> "electronic", ninit |-> 0,
     multiplicity |-> multiplicity]

\* ExtTrans.__init__ with gaslaw=None
ExtTrans(cp, dim, mobile) ==
    LET g == IdealGasLaw(None, dim)
    IN  IF ~g.ok THEN g
        ELSE [ok |-> TRUE,
              obj |-> [cls |-> "ExtTrans", name |-> "translational", ninit |-> 0,
                       cp |-> cp, gaslaw |-> g.obj, dim |-> dim, mobile |-> mobile,
                       mass |-> None]]

\* a constructor that takes the gas law it is given without looking at its dim
ExtTrans_init_unchecked(cp, gaslaw, dim, mobile) ==
    LET g == IF IsNone(gaslaw) THEN IdealGasLaw(None, dim)
             ELSE [ok |-> TRUE, obj |-> Get(gaslaw)]
    IN  IF ~g.ok THEN g
        ELSE [ok |-> TRUE,
              obj |-> [cls |-> "ExtTrans", name |-> "translational", ninit |-> 0,
                       cp |-> cp, gaslaw |-> g.obj, dim |-> dim, mobile |-> mobile,
                       mass |-> None]]

\* ExtTrans.__init__(cp, gaslaw, dim, mobile); the assert statement raises
\* AssertionError (the interpreter runs without -O)
ExtTrans_init(cp, gaslaw, dim, mobile) ==
    LET g == IF IsNone(gaslaw) THEN IdealGasLaw(None, dim)
             ELSE [ok |-> TRUE, obj |-> Get(gaslaw)]
    IN  IF ~g.ok THEN g
        ELSE IF g.obj.dim # dim THEN Raise("AssertionError", "")
        ELSE [ok |-> TRUE,
              obj |-> [cls |-> "ExtTrans", name |-> "translational", ninit |-> 0,
                       cp |-> cp, gaslaw |-> g.obj, dim |-> dim, mobile |-> mobile,
                       mass |-> None]]

ExtRot(symmetry_number, im_threshold) ==
    [cls |-> "ExtRot", name |-> "rotational", ninit |-> 0,
     symmetry_number |-> symmetry_number, im_threshold |-> im_threshold,
     inertia_tensor |-> None, moments |-> None, factor |-> None, count |-> None]

PCMCorrection(point1, point2) ==
    [cls |-> "PCMCorrection", name |-> "pcm_correction", ninit |-> 0,
     point1 |-> point1, point2 |-> point2]

Vibrations(classical, freq_scaling, zp_scaling) ==
    [cls |-> "Vibrations", name |-> "vibrational", ninit |-> 0,
     classical |-> classical, freq_scaling |-> freq_scaling, zp_scaling |-> zp_scaling,
     freqs |-> None, zero_freqs |-> None, positive_freqs |-> None,
     negative_freqs |-> None, num_terms |-> None]

\* a user-defined contribution: a plain StatFys with a name (Info.__init__)
UserTerm(name) == [cls |-> "StatFys", name |-> name, ninit |-> 0]

-----------------------------------------------------------------------------
(* init_part_fun(self, nma, partf) of each class: [ok, obj] with the       *)
(* object as the call leaves it, and err when it raises.                   *)

Inited(self) == [self EXCEPT !.ninit = @ + 1]

StatFys_init_part_fun(self, nma) == [ok |-> TRUE, obj |-> Inited(self)]

Electronic_init_part_fun(self, nma) ==
    IF IsNone(self.multiplicity) THEN
        LET o == [Inited(self) EXCEPT !.multiplicity = nma.multiplicity]
        IN  IF IsNone(o.multiplicity)
            THEN ValueError("Spin multiplicity is not defined.") @@ [obj |-> o]
            ELSE [ok |-> TRUE, obj |-> o]
    ELSE [ok |-> TRUE, obj |-> Inited(self)]

ExtTrans_init_part_fun(self, nma) ==
    [ok |-> TRUE,
     obj |-> [Inited(self) EXCEPT !.mass =
                 IF IsNone(self.mobile) THEN Some(nma.mass)
                 ELSE Some(SeqSum([i \in DOMAIN Get(self.mobile) |->
                                      nma.masses[Get(self.mobile)[i]]]))]]

\* an initializer that stores the inertia tensor before it looks at nma.periodic
ExtRot_init_part_fun_late(self, nma) ==
    IF nma.periodic
    THEN ValueError("There is no external rotation in periodic systems.")
             @@ [obj |-> [Inited(self) EXCEPT !.inertia_tensor = Some(nma.inertia_tensor)]]
    ELSE LET moments == eigvalsh(nma.inertia_tensor)
             sn == IF self.symmetry_number = 0
                   THEN (IF nma.symmetry_number = 0 THEN nma.rotsym
                         ELSE nma.symmetry_number)
                   ELSE self.symmetry_number
             big == Pick(moments, [i \in DOMAIN moments |-> moments[i] > self.im_threshold], 1)
         IN  [ok |-> TRUE,
              obj |-> [Inited(self) EXCEPT
                          !.inertia_tensor = Some(nma.inertia_tensor),
                          !.moments = Some(moments),
                          !.symmetry_number = sn,
                          !.factor = Some([moments |-> big, symmetry_number |-> sn]),
                          !.count = Some(Len(big))]]

ExtRot_init_part_fun(self, nma) ==
    IF nma.periodic
    THEN ValueError("There is no external rotation in periodic systems.")
             @@ [obj |-> Inited(self)]
    ELSE LET moments == eigvalsh(nma.inertia_tensor)
             sn == IF self.symmetry_number = 0
                   THEN (IF nma.symmetry_number = 0 THEN nma.rotsym
                         ELSE nma.symmetry_number)
                   ELSE self.symmetry_number
             big == Pick(moments, [i \in DOMAIN moments |-> moments[i] > self.im_threshold], 1)
         IN  [ok |-> TRUE,
              obj |-> [Inited(self) EXCEPT
                          !.inertia_tensor = Some(nma.inertia_tensor),
                          !.moments = Some(moments),
                          !.symmetry_number = sn,
                          !.factor = Some([moments |-> big, symmetry_number |-> sn]),
                          !.count = Some(Len(big))]]

Vibrations_init_part_fun(self, nma) ==
    LET nonzero_mask == [i \in DOMAIN nma.freqs |-> ~(i \in Range(nma.zeros))]
        positive == Pick(nma.freqs,
                         [i \in DOMAIN nma.freqs |-> nma.freqs[i] > 0 /\ nonzero_mask[i]], 1)
    IN  [ok |-> TRUE,
         obj |-> [Inited(self) EXCEPT
                     !.freqs = Some(Pick(nma.freqs, nonzero_mask, 1)),
                     !.zero_freqs = Some([i \in DOMAIN nma.zeros |-> nma.freqs[nma.zeros[i]]]),
                     !.positive_freqs = Some(positive),
                     !.negative_freqs =
                         Some(Pick(nma.freqs,
                                   [i \in DOMAIN nma.freqs |->
                                       nma.freqs[i] < 0 /\ nonzero_mask[i]], 1)),
                     !.num_terms = Some(Len(positive))]]

init_part_fun(self, nma) ==
    CASE self.cls = "Electronic" -> Electronic_init_part_fun(self, nma)
      [] self.cls = "ExtTrans" -> ExtTrans_init_part_fun(self, nma)
      [] self.cls = "ExtRot" -> ExtRot_init_part_fun(self, nma)
      [] self.cls = "Vibrations" -> Vibrations_init_part_fun(self, nma)
      [] OTHER -> StatFys_init_part_fun(self, nma)

-----------------------------------------------------------------------------
(* helper0, helper1, helper2 of each class, for a Python number temp >= 0  *)
(* and an integer n.                                                       *)

StatFys_helper(self, temp, n) == NotImplementedError

Electronic_helper0(self, temp, n) ==
    IF PowFails(temp, n) THEN ZeroDivisionError
    ELSE Ok(VScale(Pow(temp, n), VLog(MonoRat(Rat(Get(self.multiplicity))))))

Electronic_helper1(self, temp, n) == Ok(VZero)

Electronic_helper2(self, temp, n) == Ok(VZero)

ExtTrans_helper0(self, temp, n) ==
    IF temp = RatZero THEN
        IF n > 0 THEN Ok(VZero) ELSE NotImplementedError
    ELSE
        LET tn == Pow(temp, n)
            result ==
                RAdd(Ok(VAdd(VRat(tn),
                             VScale(RatMul(tn, RatMul(RatHalf, Rat(self.dim))),
                                    VLog(Mono(RatMul(Rat(2 * Get(self.mass)), temp),
                                              1, 1, -2, 0))))),
                     IdealGasLaw_helper0(self.gaslaw, temp, n))
        IN  IF self.cp
            THEN LET pv == IdealGasLaw_pv0(self.gaslaw, temp, n - 1)
                 IN  RSub(result, IF pv.ok THEN Ok(VDivK(pv.v)) ELSE pv)
            ELSE result

\* a helper1 that leaves the T = 0 test to the gas law
ExtTrans_helper1_unguarded(self, temp, n) ==
    IF PowFails(temp, n - 1) THEN ZeroDivisionError
    ELSE
        LET result == Ok(VRat(RatMul(RatMul(RatHalf, Rat(self.dim)), Pow(temp, n - 1))))
        IN  IF self.cp
            THEN LET pv == IdealGasLaw_pv1(self.gaslaw, temp, n - 1)
                 IN  RSub(RAdd(result, IdealGasLaw_helper1(self.gaslaw, temp, n)),
                          IF pv.ok THEN Ok(VDivK(pv.v)) ELSE pv)
            ELSE result

ExtTrans_helper1(self, temp, n) ==
    IF temp = RatZero THEN NotImplementedError
    ELSE
        LET result == Ok(VRat(RatMul(RatMul(RatHalf, Rat(self.dim)), Pow(temp, n - 1))))
        IN  IF self.cp
            THEN LET pv == IdealGasLaw_pv1(self.gaslaw, temp, n - 1)
                 IN  RSub(RAdd(result, IdealGasLaw_helper1(self.gaslaw, temp, n)),
                          IF pv.ok THEN Ok(VDivK(pv.v)) ELSE pv)
            ELSE result

ExtTrans_helper2(self, temp, n) ==
    IF temp = RatZero THEN NotImplementedError
    ELSE
        LET result == Ok(VNeg(VRat(RatMul(RatMul(RatHalf, Rat(self.dim)), Pow(temp, n - 2)))))
        IN  IF self.cp
            THEN LET pv == IdealGasLaw_pv2(self.gaslaw, temp, n - 1)
                 IN  RSub(RAdd(result, IdealGasLaw_helper2(self.gaslaw, temp, n)),
                          IF pv.ok THEN Ok(VDivK(pv.v)) ELSE pv)
            ELSE result

\* numpy.log(self.factor), factor = sqrt(prod(2*pi*m*boltzmann))/symmetry_number/pi
LogFactor(self) == VTerm(RatOne, Atom(0, 0, "ln_rot_factor", Get(self.factor)))

\* a helper0 that returns 0 at T = 0 for n = 0 too
ExtRot_helper0_from0(self, temp, n) ==
    IF temp = RatZero THEN
        IF n >= 0 THEN Ok(VZero) ELSE NotImplementedError
    ELSE Ok(VScale(Pow(temp, n),
                   VAdd(VScale(RatMul(RatHalf, Rat(Get(self.count))), VLog(MonoRat(temp))),
                        LogFactor(self))))

ExtRot_helper0(self, temp, n) ==
    IF temp = RatZero THEN
        IF n > 0 THEN Ok(VZero) ELSE NotImplementedError
    ELSE Ok(VScale(Pow(temp, n),
                   VAdd(VScale(RatMul(RatHalf, Rat(Get(self.count))), VLog(MonoRat(temp))),
                        LogFactor(self))))

ExtRot_helper1(self, temp, n) ==
    IF PowFails(temp, n - 1) THEN ZeroDivisionError
    ELSE Ok(VRat(RatMul(Pow(temp, n - 1), RatMul(RatHalf, Rat(Get(self.count))))))

ExtRot_helper2(self, temp, n) ==
    IF PowFails(temp, n - 2) THEN ZeroDivisionError
    ELSE Ok(VNeg(VRat(RatMul(Pow(temp, n - 2), RatMul(RatHalf, Rat(Get(self.count)))))))

\* PCMCorrection._eval_free: <<F, F', F''>>; a point is <<delta_G, temp>>
\* a line through the origin's temperature instead of point1's
PCMCorrection_eval_free_origin(self, temp) ==
    IF IsNone(self.point2) THEN Ok(<<self.point1[1], RatZero, RatZero>>)
    ELSE LET p1 == self.point1
             p2 == Get(self.point2)
         IN  IF p2[2] = p1[2] THEN ZeroDivisionError
             ELSE LET slope == RatDiv(RatSub(p2[1], p1[1]), RatSub(p2[2], p1[2]))
                  IN  Ok(<<RatAdd(p1[1], RatMul(slope, temp)), slope, RatZero>>)

PCMCorrection_eval_free(self, temp) ==
    IF IsNone(self.point2) THEN Ok(<<self.point1[1], RatZero, RatZero>>)
    ELSE LET p1 == self.point1
             p2 == Get(self.point2)
         IN  IF p2[2] = p1[2] THEN ZeroDivisionError
             ELSE LET slope == RatDiv(RatSub(p2[1], p1[1]), RatSub(p2[2], p1[2]))
                  IN  Ok(<<RatAdd(p1[1], RatMul(slope, RatSub(temp, p1[2]))), slope, RatZero>>)

PCMCorrection_helper0(self, temp, n) ==
    LET e == PCMCorrection_eval_free(self, temp)
    IN  IF ~e.ok THEN e
        ELSE IF PowFails(temp, n - 1) THEN ZeroDivisionError
        ELSE Ok(VDivK(VRat(RatMul(RatNeg(e.v[1]), Pow(temp, n - 1)))))

PCMCorrection_helper1(self, temp, n) ==
    LET e == PCMCorrection_eval_free(self, temp)
    IN  IF ~e.ok THEN e
        ELSE IF PowFails(temp, n - 2) THEN ZeroDivisionError
        ELSE Ok(VDivK(VRat(RatSub(RatMul(e.v[1], Pow(temp, n - 2)),
                                  RatMul(e.v[2], Pow(temp, n - 1))))))

PCMCorrection_helper2(self, temp, n) ==
    LET e == PCMCorrection_eval_free(self, temp)
    IN  IF ~e.ok THEN e
        ELSE IF PowFails(temp, n - 3) THEN ZeroDivisionError
        ELSE Ok(VDivK(VRat(RatAdd(RatMul(RatNeg(e.v[3]), Pow(temp, n - 1)),
                                  RatMul(Rat(2), RatSub(RatMul(e.v[2], Pow(temp, n - 2)),
                                                        RatMul(e.v[1], Pow(temp, n - 3))))))))

-----------------------------------------------------------------------------
(* The helper functions of a system with discrete energy levels (a         *)
(* non-empty array).  The atoms "levels_e", "levels_e2" and "levels_e_sq"  *)
(* stand for the Boltzmann averages <E>, <E^2> and <E>^2 of the levels at  *)
(* the temperature.                                                        *)

LevelsAtom(kp, fn, temp, energy_levels) ==
    Atom(kp, 0, fn, [temp |-> temp, energy_levels |-> energy_levels])

\* the while loop of helper0_levels: degeneracy grows while it is an index of
\* the array (0-based) whose level equals the first one
RECURSIVE degeneracy_loop(_, _)
degeneracy_loop(energy_levels, degeneracy) ==
    IF degeneracy < Len(energy_levels) /\ energy_levels[1] = energy_levels[degeneracy + 1]
    THEN degeneracy_loop(energy_levels, degeneracy + 1)
    ELSE degeneracy

\* helper0_levels(temp, n, energy_levels), energy_levels a non-empty array
helper0_levels(temp, n, energy_levels) ==
    IF temp = RatZero THEN
        IF PowFails(temp, n) \/ PowFails(temp, n - 1) THEN ZeroDivisionError
        ELSE Ok(VSub(VScale(Pow(temp, n),
                            VLog(MonoRat(Rat(degeneracy_loop(energy_levels, 1))))),
                     VRat(RatMul(Pow(temp, n - 1), Rat(energy_levels[1])))))
    ELSE Ok(VTerm(Pow(temp, n), LevelsAtom(0, "ln_Z", temp, energy_levels)))

helper1_levels(temp, n, energy_levels) ==
    IF temp = RatZero THEN NotImplementedError
    ELSE Ok(VTerm(Pow(temp, n - 2), LevelsAtom(-1, "levels_e", temp, energy_levels)))

helper2_levels(temp, n, energy_levels) ==
    IF temp = RatZero THEN NotImplementedError
    ELSE Ok(VSub(VSub(VTerm(Pow(temp, n - 4),
                            LevelsAtom(-2, "levels_e2", temp, energy_levels)),
                      VTerm(RatMul(Rat(2), Pow(temp, n - 3)),
                            LevelsAtom(-1, "levels_e", temp, energy_levels))),
                 VTerm(Pow(temp, n - 4), LevelsAtom(-2, "levels_e_sq", temp, energy_levels))))

-----------------------------------------------------------------------------
(* The harmonic-oscillator helper functions: one value per frequency.      *)
(* pfb = pi*freq/boltzmann; the atoms "ln1mexp", "inv1mexp" and "invsinh2" *)
(* stand for ln(1 - exp(-x)), 1/(1 - exp(x)) and 1/sinh(x)^2.              *)

Pfb(c) == VTerm(c, Atom(-1, 1, "one", << >>))

\* a helper0 that scales the zero-point term at T = 0 with freq_scaling too
helper0_vibrations_scaled(temp, n, freqs, classical, freq_scaling, zp_scaling) ==
    IF classical THEN
        IF temp = RatZero THEN
            IF n > 0 THEN Ok([i \in DOMAIN freqs |-> VZero]) ELSE NotImplementedError
        ELSE Ok([i \in DOMAIN freqs |->
                    VScale(Pow(temp, n),
                           VLog(Mono(RatMul(RatDiv(RatMul(RatHalf, temp), Rat(freqs[i])),
                                            freq_scaling), 1, -1, 0, 0)))])
    ELSE
        IF PowFails(temp, n - 1) THEN ZeroDivisionError
        ELSE LET zp(i) == Pfb(RatMul(RatMul(RatNeg(zp_scaling), Rat(freqs[i])),
                                     Pow(temp, n - 1)))
             IN  IF temp = RatZero
                 THEN Ok([i \in DOMAIN freqs |-> VScale(freq_scaling, zp(i))])
                 ELSE Ok([i \in DOMAIN freqs |->
                        VSub(zp(i),
                             VTerm(Pow(temp, n),
                                   Atom(0, 0, "ln1mexp",
                                        Mono(RatDiv(RatMul(RatMul(Rat(2), freq_scaling),
                                                           Rat(freqs[i])), temp),
                                             -1, 1, 0, 0))))])

helper0_vibrations(temp, n, freqs, classical, freq_scaling, zp_scaling) ==
    IF classical THEN
        IF temp = RatZero THEN
            IF n > 0 THEN Ok([i \in DOMAIN freqs |-> VZero]) ELSE NotImplementedError
        ELSE Ok([i \in DOMAIN freqs |->
                    VScale(Pow(temp, n),
                           VLog(Mono(RatMul(RatDiv(RatMul(RatHalf, temp), Rat(freqs[i])),
                                            freq_scaling), 1, -1, 0, 0)))])
    ELSE
        IF PowFails(temp, n - 1) THEN ZeroDivisionError
        ELSE LET zp(i) == Pfb(RatMul(RatMul(RatNeg(zp_scaling), Rat(freqs[i])),
                                     Pow(temp, n - 1)))
             IN  IF temp = RatZero THEN Ok([i \in DOMAIN freqs |-> zp(i)])
                 ELSE Ok([i \in DOMAIN freqs |->
                        VSub(zp(i),
                             VTerm(Pow(temp, n),
                                   Atom(0, 0, "ln1mexp",
                                        Mono(RatDiv(RatMul(RatMul(Rat(2), freq_scaling),
                                                           Rat(freqs[i])), temp),
                                             -1, 1, 0, 0))))])

helper1_vibrations(temp, n, freqs, classical, freq_scaling, zp_scaling) ==
    IF temp = RatZero THEN NotImplementedError
    ELSE IF classical THEN Ok([i \in DOMAIN freqs |-> VRat(Pow(temp, n - 1))])
    ELSE Ok([i \in DOMAIN freqs |->
                LET x == Mono(RatDiv(RatMul(RatMul(Rat(2), freq_scaling), Rat(freqs[i])), temp),
                              -1, 1, 0, 0)
                    c == RatMul(Rat(freqs[i]), Pow(temp, n - 2))
                IN  VSub(Pfb(RatMul(c, zp_scaling)),
                         VTerm(RatMul(c, RatMul(Rat(2), freq_scaling)),
                               Atom(-1, 1, "inv1mexp", x)))])

helper2_vibrations(temp, n, freqs, classical, freq_scaling, zp_scaling) ==
    IF temp = RatZero THEN NotImplementedError
    ELSE IF classical THEN Ok([i \in DOMAIN freqs |-> VNeg(VRat(Pow(temp, n - 2)))])
    ELSE Ok([i \in DOMAIN freqs |->
                LET x == Mono(RatDiv(RatMul(RatMul(Rat(2), freq_scaling), Rat(freqs[i])), temp),
                              -1, 1, 0, 0)
                    y == Mono(RatDiv(RatMul(freq_scaling, Rat(freqs[i])), temp), -1, 1, 0, 0)
                    c == RatMul(RatMul(Rat(-2), Rat(freqs[i])), Pow(temp, n - 3))
                    fp == RatMul(freq_scaling, Rat(freqs[i]))
                IN  VAdd(VSub(Pfb(RatMul(c, zp_scaling)),
                              VTerm(RatMul(c, RatMul(Rat(2), freq_scaling)),
                                    Atom(-1, 1, "inv1mexp", x))),
                         VTerm(RatMul(Pow(temp, n - 4), RatMul(fp, fp)),
                               Atom(-2, 2, "invsinh2", y)))])

\* Vibrations.helper0_terms, helper1_terms, helper2_terms
Vibrations_helper_terms(self, K, temp, n) ==
    LET f == Get(self.positive_freqs)
    IN  CASE K = 0 -> helper0_vibrations(temp, n, f, self.classical, self.freq_scaling,
                                         self.zp_scaling)
          [] K = 1 -> helper1_vibrations(temp, n, f, self.classical, self.freq_scaling,
                                         self.zp_scaling)
          [] K = 2 -> helper2_vibrations(temp, n, f, self.classical, self.freq_scaling,
                                         self.zp_scaling)

\* numpy's array.sum(): 0.0 for the empty array
RECURSIVE ArraySum(_)
ArraySum(a) == IF a = << >> THEN VZero ELSE VAdd(a[1], ArraySum(Tail(a)))

\* helper1 and helper2 that sum the helper0 terms
StatFysTerms_helper_copied(self, K, temp, n) ==
    LET t == Vibrations_helper_terms(self, 0, temp, n)
    IN  IF t.ok THEN Ok(ArraySum(t.v)) ELSE t

\* StatFysTerms.helper0, helper1, helper2
StatFysTerms_helper(self, K, temp, n) ==
    LET t == Vibrations_helper_terms(self, K, temp, n)
    IN  IF t.ok THEN Ok(ArraySum(t.v)) ELSE t

\* term.helperK(temp, n) by the class of the term
term_helper(self, K, temp, n) ==
    CASE self.cls = "Electronic" ->
            (CASE K = 0 -> Electronic_helper0(self, temp, n)
               [] K = 1 -> Electronic_helper1(self, temp, n)
               [] K = 2 -> Electronic_helper2(self, temp, n))
      [] self.cls = "ExtTrans" ->
            (CASE K = 0 -> ExtTrans_helper0(self, temp, n)
               [] K = 1 -> ExtTrans_helper1(self, temp, n)
               [] K = 2 -> ExtTrans_helper2(self, temp, n))
      [] self.cls = "ExtRot" ->
            (CASE K = 0 -> ExtRot_helper0(self, temp, n)
               [] K = 1 -> ExtRot_helper1(self, temp, n)
               [] K = 2 -> ExtRot_helper2(self, temp, n))
      [] self.cls = "PCMCorrection" ->
            (CASE K = 0 -> PCMCorrection_helper0(self, temp, n)
               [] K = 1 -> PCMCorrection_helper1(self, temp, n)
               [] K = 2 -> PCMCorrection_helper2(self, temp, n))
      [] self.cls = "Vibrations" -> StatFysTerms_helper(self, K, temp, n)
      [] OTHER -> StatFys_helper(self, temp, n)

-----------------------------------------------------------------------------
(* StatFys: the quantities derived from the helper functions, written once *)
(* for any object with helper0, helper1 and helper2.                       *)

StatFys_log(helper0, temp) == helper0[temp, 0]

StatFys_dlog(helper1, temp) == helper1[temp, 0]

StatFys_ddlog(helper2, temp) == helper2[temp, 0]

StatFys_internal_energy(helper1, temp) == RMulK(helper1[temp, 2])

StatFys_heat_capacity(helper1, helper2, temp) ==
    RMulK(RAdd(RScale(Rat(2), helper1[temp, 1]), helper2[temp, 2]))

\* an entropy that takes both helpers at n = 0
StatFys_entropy_n0(helper0, helper1, temp) ==
    RMulK(RAdd(helper0[temp, 0], helper1[temp, 0]))

StatFys_entropy(helper0, helper1, temp) ==
    RMulK(RAdd(helper0[temp, 0], helper1[temp, 1]))

StatFys_free_energy(helper0, temp) == RScale(Rat(-1), RMulK(helper0[temp, 1]))

\* the derived quantity q of any object, given h, its helper functions:
\* h[K, t, n] is helperK(t, n)
StatFys_quantity(q, h, temp) ==
    LET h0 == [t \in {temp}, n \in 0..2 |-> h[0, t, n]]
        h1 == [t \in {temp}, n \in 0..2 |-> h[1, t, n]]
        h2 == [t \in {temp}, n \in 0..2 |-> h[2, t, n]]
    IN  CASE q = "log" -> StatFys_log(h0, temp)
          [] q = "dlog" -> StatFys_dlog(h1, temp)
          [] q = "ddlog" -> StatFys_ddlog(h2, temp)
          [] q = "internal_energy" -> StatFys_internal_energy(h1, temp)
          [] q = "heat_capacity" -> StatFys_heat_capacity(h1, h2, temp)
          [] q = "entropy" -> StatFys_entropy(h0, h1, temp)
          [] q = "free_energy" -> StatFys_free_energy(h0, temp)

Quantities ==
    {"log", "dlog", "ddlog", "internal_energy", "heat_capacity", "entropy", "free_energy"}

term_quantity(self, q, temp) ==
    StatFys_quantity(q, [K \in 0..2, t \in {temp}, n \in 0..2 |->
                            term_helper(self, K, t, n)], temp)

\* StatFysTerms.log_terms, ..., free_energy_terms: the quantity computed from the
\* helperK_terms arrays, numpy applying the arithmetic of StatFys to each
\* element; an exception of a helperK_terms call the quantity makes ends the call
StatFysTerms_quantity_terms(self, q, temp) ==
    LET ht == [K \in 0..2, t \in {temp}, n \in 0..2 |->
                  Vibrations_helper_terms(self, K, t, n)]
        raised == StatFys_quantity(q, [K \in 0..2, t \in {temp}, n \in 0..2 |->
                                         IF ht[K, t, n].ok THEN Ok(VZero) ELSE ht[K, t, n]],
                                   temp)
        \* the first helperK_terms call of the quantity: its array gives the shape
        first == CASE q \in {"log", "entropy"} -> ht[0, temp, 0]
                   [] q = "free_energy" -> ht[0, temp, 1]
                   [] q = "dlog" -> ht[1, temp, 0]
                   [] q = "heat_capacity" -> ht[1, temp, 1]
                   [] q = "internal_energy" -> ht[1, temp, 2]
                   [] q = "ddlog" -> ht[2, temp, 0]
    IN  IF ~raised.ok THEN raised
        ELSE Ok([i \in DOMAIN first.v |->
                    StatFys_quantity(q, [K \in 0..2, t \in {temp}, n \in 0..2 |->
                                           IF ht[K, t, n].ok THEN Ok(ht[K, t, n].v[i])
                                           ELSE ht[K, t, n]],
                                     temp).v])

-----------------------------------------------------------------------------
(* PartFun.                                                                *)

reserved_names == {"terms"}

\* list.sort(key=lambda t: t.name): a stable sort of term ids by name
RECURSIVE InsertByName(_, _, _)
InsertByName(heap, sorted, t) ==
    IF sorted = << >> THEN <<t>>
    ELSE IF NameRank(heap[t].name) < NameRank(heap[sorted[1]].name)
         THEN <<t>> \o sorted
         ELSE <<sorted[1]>> \o InsertByName(heap, Tail(sorted), t)

RECURSIVE SortByName(_, _)
SortByName(heap, s) ==
    IF s = << >> THEN << >>
    ELSE InsertByName(heap, SortByName(heap, SubSeq(s, 1, Len(s) - 1)), s[Len(s)])

\* for term in self.terms: term.init_part_fun(nma, self), from position i on:
\* the heap as the loop leaves it, the calls made, and the error that ended it
RECURSIVE InitLoop(_, _, _, _)
InitLoop(heap, terms, i, nma) ==
    IF i > Len(terms) THEN [ok |-> TRUE, heap |-> heap, inits |-> << >>]
    ELSE LET r == init_part_fun(heap[terms[i]], nma)
             h == [heap EXCEPT ![terms[i]] = r.obj]
         IN  IF ~r.ok THEN [ok |-> FALSE, err |-> r.err, heap |-> h, inits |-> <<terms[i]>>]
             ELSE LET rest == InitLoop(h, terms, i + 1, nma)
                  IN  [rest EXCEPT !.inits = <<terms[i]>> \o @]

\* for term in self.terms: self.__dict__[term.name] = term, after
\* self.vibrational = None and self.electronic = None
TermAttrs(heap, terms) ==
    LET names == {heap[terms[i]].name : i \in DOMAIN terms} \cup {"vibrational", "electronic"}
        last(name) == {i \in DOMAIN terms : heap[terms[i]].name = name /\
                          \A j \in DOMAIN terms : heap[terms[j]].name = name => j <= i}
    IN  [name \in names |->
            IF last(name) = {} THEN None ELSE Some(terms[CHOOSE i \in last(name) : TRUE])]

\* PartFun.__init__(self, nma, terms) on the list content the terms argument holds:
\* [ok, err, heap, terms, attrs, inits], heap and terms as the call leaves them
PartFun_init(heap, content, nma) ==
    IF \E i \in DOMAIN content : heap[content[i]].name \in reserved_names
    THEN NameError("name 'mod' is not defined")
             @@ [heap |-> heap, terms |-> content, inits |-> << >>]
    ELSE
        LET attrs0 == TermAttrs(heap, content)
            heap1 == IF IsNone(attrs0["vibrational"])
                     THEN Append(heap, Vibrations(FALSE, RatOne, RatOne)) ELSE heap
            terms1 == IF IsNone(attrs0["vibrational"])
                      THEN Append(content, Len(heap1)) ELSE content
            heap2 == IF IsNone(attrs0["electronic"])
                     THEN Append(heap1, Electronic(None)) ELSE heap1
            terms2 == IF IsNone(attrs0["electronic"])
                      THEN Append(terms1, Len(heap2)) ELSE terms1
            sorted == SortByName(heap2, terms2)
            loop == InitLoop(heap2, sorted, 1, nma)
            attrs == [name \in DOMAIN attrs0 |->
                         IF name = "vibrational" /\ IsNone(attrs0[name]) THEN Some(Len(heap1))
                         ELSE IF name = "electronic" /\ IsNone(attrs0[name])
                              THEN Some(Len(heap2))
                              ELSE attrs0[name]]
        IN  loop @@ [terms |-> sorted, attrs |-> attrs]


\* getattr(self, name) on a PartFun as __init__ leaves it: energy, title and
\* name are assigned last, the entries self.__dict__[term.name] before them,
\* and a method is found when the instance has no attribute of its name
PartFun_getattr(self, name) ==
    CASE name = "energy" -> [kind |-> "value", v |-> self.energy]
      [] name = "title" -> [kind |-> "value", v |-> self.title]
      [] name = "name" -> [kind |-> "value", v |-> self.name]
      [] name = "terms" -> [kind |-> "list", id |-> self.terms]
      [] name \in DOMAIN self.attrs -> [kind |-> "term", id |-> Get(self.attrs[name])]
      [] name \in {"helper0", "helper1", "helper2"} -> [kind |-> "method", name |-> name]
      [] OTHER -> [kind |-> "AttributeError"]

\* sum(vals), vals the values term.helperK(temp, n) of the terms in order,
\* from position i on: the first exception ends the sum
RECURSIVE SumHelpers(_, _, _)
SumHelpers(vals, i, acc) ==
    IF i > Len(vals) THEN Ok(acc)
    ELSE IF ~vals[i].ok THEN vals[i]
         ELSE SumHelpers(vals, i + 1, VAdd(acc, vals[i].v))

\* a sum that leaves out the first term of the collection
PartFun_helper_tail(heap, terms, K, temp, n) ==
    SumHelpers([i \in DOMAIN terms |-> term_helper(heap[terms[i]], K, temp, n)], 2, VZero)

\* PartFun.helper0, helper1, helper2
PartFun_helper(heap, terms, K, temp, n) ==
    SumHelpers([i \in DOMAIN terms |-> term_helper(heap[terms[i]], K, temp, n)], 1, VZero)

\* PartFun.internal_energy, entropy, free_energy and the inherited quantities
PartFun_quantity(heap, terms, energy, q, temp) ==
    LET r == StatFys_quantity(q, [K \in 0..2, t \in {temp}, n \in 0..2 |->
                                    PartFun_helper(heap, terms, K, t, n)], temp)
    IN  IF q \in {"internal_energy", "free_energy"} THEN RAdd(r, Ok(VRat(energy))) ELSE r

\* the lines a term's dump writes, given fe, the outcome of self.free_energy(0.0):
\* one record stands for the header and parameter lines; Vibrations and
\* PCMCorrection print the zero-point energy last
BlockLines(self, t, fe) ==
    IF self.cls \in {"PCMCorrection", "Vibrations"}
    THEN (IF fe.ok
          THEN [ok |-> TRUE, out |-> <<[kind |-> "block", name |-> self.name, obj |-> t],
                                       [kind |-> "zero_point", v |-> fe.v]>>]
          ELSE [ok |-> FALSE, err |-> fe.err,
                out |-> <<[kind |-> "block", name |-> self.name, obj |-> t]>>])
    ELSE [ok |-> TRUE, out |-> <<[kind |-> "block", name |-> self.name, obj |-> t]>>]

\* Info.dump and the dump of each class: the lines of the term's block, and
\* the exception that ended it
term_dump(heap, t) == BlockLines(heap[t], t, term_quantity(heap[t], "free_energy", RatZero))

\* for term in self.terms: term.dump(f), blocks the outcomes of the dumps in
\* order, from position i on: the first exception ends the loop
RECURSIVE DumpTerms(_, _)
DumpTerms(blocks, i) ==
    IF i > Len(blocks) THEN [ok |-> TRUE, out |-> << >>]
    ELSE IF ~blocks[i].ok THEN blocks[i]
         ELSE [DumpTerms(blocks, i + 1) EXCEPT !.out = blocks[i].out \o @]

\* the lines PartFun.dump writes, given fe, the outcome of self.free_energy(0.0),
\* and the outcome of the loop over the terms
DumpLines(pf, fe, blocks) ==
    IF ~fe.ok
    THEN [ok |-> FALSE, err |-> fe.err,
          out |-> <<[kind |-> "title", v |-> pf.title], [kind |-> "energy", v |-> pf.energy]>>]
    ELSE [blocks EXCEPT !.out =
              <<[kind |-> "title", v |-> pf.title], [kind |-> "energy", v |-> pf.energy],
                [kind |-> "zero_point", v |-> VSub(fe.v, VRat(pf.energy))],
                [kind |-> "energy_zero_point", v |-> fe.v],
                [kind |-> "contributions"]>> \o @]

\* PartFun.dump(f): what is written to f, and the exception that ended it
PartFun_dump(heap, terms, pf) ==
    DumpLines(pf, PartFun_quantity(heap, terms, pf.energy, "free_energy", RatZero),
              DumpTerms([i \in DOMAIN terms |-> term_dump(heap, terms[i])], 1))

-----------------------------------------------------------------------------
(* The state machine: the calls a user of the library makes.               *)

\* the term objects the user constructs
TermTemplates ==
    <<Electronic(None),
      Electronic(Some(3)),
      ExtRot(0, 1),
      ExtRot(2, 4),
      ExtTrans(TRUE, 3, None).obj,
      UserTerm("terms"),
      Vibrations(FALSE, RatOne, RatOne)>>

\* the term objects of a PartFun whose helper functions are evaluated
EvalTemplates ==
    {Electronic(Some(3)),
     ExtRot(0, 1),
     ExtTrans(TRUE, 3, None).obj,
     ExtTrans(FALSE, 3, Some(<<1>>)).obj,
     PCMCorrection(<<Rat(5), Rat(2)>>, Some(<<Rat(8), Rat(4)>>)),
     Vibrations(FALSE, <<2, 3>>, RatOne),
     Vibrations(TRUE, RatOne, RatOne)}

\* the user's program makes two PartFun(...) calls, as the example
\* 006_5T_ethene_reaction does for the reactant and the transition state
PartFunCalls == {1, 2}

\* the lengths of the term lists the user writes
ListLens == {0, 1, 2}

\* the temperatures and powers the helper functions are called with
Temps == {RatZero, Rat(2)}
Powers == {0, 1, 2}

NoCall == [op |-> "none"]

Init ==
    /\ objs = << >>
    /\ lists = << >>
    /\ pfs = << >>
    /\ user = << >>
    /\ ncalls = 0
    /\ ret = NoCall

\* the user constructs a term.  A term constructor reads and writes nothing but
\* the new object, so the user's constructions are taken first and in the
\* order of TermTemplates.
NewTerm(k) ==
    /\ ncalls = 0
    /\ Len(objs) < MaxUserTerms
    /\ \A i \in DOMAIN user : user[i] <= k
    /\ objs' = Append(objs, TermTemplates[k])
    /\ user' = Append(user, k)
    /\ ret' = [op |-> "new_term", obj |-> Len(objs) + 1]
    /\ UNCHANGED <<lists, pfs, ncalls>>

\* a PartFun whose default for terms is one list object, shared by the calls
Construct_shared_default(nma, arg) ==
    /\ ncalls + 1 \in PartFunCalls
    /\ \E l \in {IF arg.kind = "old" THEN arg.list
                 ELSE IF arg.kind = "none" /\ \E p \in DOMAIN pfs : IsNone(pfs[p].given)
                      THEN pfs[CHOOSE p \in DOMAIN pfs : IsNone(pfs[p].given)].terms
                      ELSE Len(lists) + 1} :
       \E content \in {IF l \in DOMAIN lists THEN lists[l]
                       ELSE IF arg.kind = "new" THEN arg.content ELSE << >>} :
       \E r \in {PartFun_init(objs, content, NMAs[nma])} :
       LET self == [terms |-> l, attrs |-> r.attrs, energy |-> NMAs[nma].energy,
                    title |-> NMAs[nma].title, name |-> "total",
                    nma |-> nma, given |-> IF arg.kind = "none" THEN None ELSE Some(content)]
       IN  /\ IF arg.kind = "none" /\ ~r.ok
              THEN UNCHANGED <<objs, lists>>
              ELSE /\ objs' = r.heap
                   /\ lists' = IF l \in DOMAIN lists THEN [lists EXCEPT ![l] = r.terms]
                               ELSE Append(lists, r.terms)
           /\ pfs' = IF r.ok THEN Append(pfs, self) ELSE pfs
           /\ ret' = [op |-> "PartFun", nma |-> nma, arg |-> arg, given |-> content,
                      ok |-> r.ok,
                      err |-> IF r.ok THEN None ELSE Some(r.err),
                      terms |-> r.terms, inits |-> r.inits]
    /\ ncalls' = ncalls + 1
    /\ UNCHANGED user

\* PartFun(nma, terms): terms is None (arg.kind = "none"), a list the user
\* builds for the call from terms of theirs (arg.kind = "new", arg.content its
\* elements) or a list object that exists already (arg.kind = "old", arg.list
\* its id).  A call that raises leaves no PartFun; the list and the objects
\* it reached stay as it left them (with terms=None they are garbage).
Construct(nma, arg) ==
    /\ ncalls + 1 \in PartFunCalls
    /\ \E l \in {IF arg.kind = "old" THEN arg.list ELSE Len(lists) + 1},
          content \in {CASE arg.kind = "none" -> << >>
                         [] arg.kind = "new" -> arg.content
                         [] arg.kind = "old" -> lists[arg.list]} :
       \E r \in {PartFun_init(objs, content, NMAs[nma])} :
       LET self == [terms |-> l, attrs |-> r.attrs, energy |-> NMAs[nma].energy,
                    title |-> NMAs[nma].title, name |-> "total",
                    nma |-> nma, given |-> IF arg.kind = "none" THEN None ELSE Some(content)]
       IN  /\ IF arg.kind = "none" /\ ~r.ok
              THEN UNCHANGED <<objs, lists>>
              ELSE /\ objs' = r.heap
                   /\ lists' = IF arg.kind = "old" THEN [lists EXCEPT ![l] = r.terms]
                               ELSE Append(lists, r.terms)
           /\ pfs' = IF r.ok THEN Append(pfs, self) ELSE pfs
           /\ ret' = [op |-> "PartFun", nma |-> nma, arg |-> arg, given |-> content,
                      ok |-> r.ok,
                      err |-> IF r.ok THEN None ELSE Some(r.err),
                      terms |-> r.terms, inits |-> r.inits]
    /\ ncalls' = ncalls + 1
    /\ UNCHANGED user

\* PartFun(nma, [t1, ..., tm]) with the terms constructed in the list, as in
\* PartFun(nma_react, [ExternalTranslation(), ExternalRotation(1)]) of the example
ConstructInline(nma, kinds) ==
    /\ ncalls = 0
    /\ \E content \in {[i \in DOMAIN kinds |-> Len(objs) + i]} :
       \E r \in {PartFun_init(objs \o kinds, content, NMAs[nma])} :
       LET self == [terms |-> Len(lists) + 1, attrs |-> r.attrs, energy |-> NMAs[nma].energy,
                    title |-> NMAs[nma].title, name |-> "total",
                    nma |-> nma, given |-> Some(content)]
       IN  /\ objs' = IF r.ok THEN r.heap ELSE objs
           /\ lists' = IF r.ok THEN Append(lists, r.terms) ELSE lists
           /\ pfs' = IF r.ok THEN Append(pfs, self) ELSE pfs
           /\ ret' = [op |-> "PartFun", nma |-> nma,
                      arg |-> [kind |-> "new", content |-> content], given |-> content,
                      ok |-> r.ok,
                      err |-> IF r.ok THEN None ELSE Some(r.err),
                      terms |-> r.terms, inits |-> r.inits]
    /\ ncalls' = ncalls + 1
    /\ UNCHANGED user

\* a helperK that consumes the terms it sums: the collection is empty afterwards
EvalHelper_consuming(of, id, K, temp, n) ==
    /\ ret.op \in {"PartFun", "dump"}
    /\ of = "terms" => objs[id].cls = "Vibrations"
    /\ ret' = [op |-> "helper", of |-> of, id |-> id, K |-> K, temp |-> temp, n |-> n,
               res |-> CASE of = "PartFun" ->
                                PartFun_helper(objs, lists[pfs[id].terms], K, temp, n)
                         [] of = "term" -> term_helper(objs[id], K, temp, n)
                         [] of = "terms" -> Vibrations_helper_terms(objs[id], K, temp, n)]
    /\ lists' = IF of = "PartFun" THEN [lists EXCEPT ![pfs[id].terms] = << >>] ELSE lists
    /\ UNCHANGED <<objs, pfs, user, ncalls>>

\* obj.helperK(temp, n) on a PartFun (of = "PartFun") or on one of its terms
\* (of = "term"), and obj.helperK_terms(temp, n) on a Vibrations (of = "terms").
\* The user's program looks at one result between two dumps: ret holds the
\* last result only, and the objects every call reads are in objs, lists, pfs.
EvalHelper(of, id, K, temp, n) ==
    /\ ret.op \in {"PartFun", "dump"}
    /\ of = "terms" => objs[id].cls = "Vibrations"
    /\ ret' = [op |-> "helper", of |-> of, id |-> id, K |-> K, temp |-> temp, n |-> n,
               res |-> CASE of = "PartFun" ->
                                PartFun_helper(objs, lists[pfs[id].terms], K, temp, n)
                         [] of = "term" -> term_helper(objs[id], K, temp, n)
                         [] of = "terms" -> Vibrations_helper_terms(objs[id], K, temp, n)]
    /\ UNCHANGED <<objs, lists, pfs, user, ncalls>>

\* obj.log(temp), ..., obj.free_energy(temp) on a PartFun or on one of its terms
EvalQuantity(of, id, q, temp) ==
    /\ ret.op \in {"PartFun", "dump"}
    /\ ret' = [op |-> "quantity", of |-> of, id |-> id, q |-> q, temp |-> temp,
               res |-> IF of = "PartFun"
                       THEN PartFun_quantity(objs, lists[pfs[id].terms], pfs[id].energy, q, temp)
                       ELSE term_quantity(objs[id], q, temp)]
    /\ UNCHANGED <<objs, lists, pfs, user, ncalls>>

\* pf.dump(f) on a new file f
Dump(p) ==
    /\ ret' = [op |-> "dump", pf |-> p] @@ PartFun_dump(objs, lists[pfs[p].terms], pfs[p])
    /\ UNCHANGED <<objs, lists, pfs, user, ncalls>>

\* the terms of the PartFun objects: the initialized terms
TermsOfPartFuns == UNION {Range(lists[pfs[p].terms]) : p \in DOMAIN pfs}

ListArgs ==
    {[kind |-> "none"]}
        \cup {[kind |-> "new", content |-> c] : c \in UNION {[1..m -> DOMAIN user] : m \in ListLens}}
        \cup {[kind |-> "old", list |-> l] : l \in DOMAIN lists}

Next ==
    \/ \E k \in DOMAIN TermTemplates : NewTerm(k)
    \/ \E nma \in NmaIds, arg \in ListArgs : Construct(nma, arg)

\* The life of the objects: terms and lists shared between two PartFun calls.
Spec == Init /\ [][Next]_vars

NextEval ==
    \/ \E nma \in NmaIds, kinds \in UNION {[1..m -> EvalTemplates] : m \in ListLens} :
           ConstructInline(nma, kinds)
    \/ \E p \in DOMAIN pfs, K \in 0..2, temp \in Temps, n \in Powers :
           EvalHelper("PartFun", p, K, temp, n)
    \/ \E p \in DOMAIN pfs, q \in Quantities, temp \in Temps :
           EvalQuantity("PartFun", p, q, temp)
    \/ \E t \in TermsOfPartFuns, K \in 0..2, temp \in Temps, n \in Powers :
           EvalHelper("term", t, K, temp, n)
    \/ \E t \in TermsOfPartFuns, K \in 0..2, temp \in Temps, n \in Powers :
           EvalHelper("terms", t, K, temp, n)
    \/ \E t \in TermsOfPartFuns, q \in Quantities, temp \in Temps :
           EvalQuantity("term", t, q, temp)
    \/ \E p \in DOMAIN pfs : Dump(p)

\* The use of one PartFun: any sequence of evaluations and dumps.
SpecEval == Init /\ [][NextEval]_vars

-----------------------------------------------------------------------------
(* The calls a user makes on the classes and functions of the module       *)
(* directly, and on the terms of a PartFun built from any frequency array. *)
(* Each program makes one direct call, or builds one PartFun and looks at  *)
(* one result.                                                             *)

\* the longest frequency array of a normal-mode result
MaxFreqs == 2

\* a frequency is imaginary (negative), zero or real (positive)
FreqValues == {-1, 0, 2}
FreqArrays == UNION {[1..m -> FreqValues] : m \in 0..MaxFreqs}

\* nma.zeros: the indexes of the frequencies that are zero by construction,
\* a set of indexes of the array, held in ascending order
IndexArrays(m) ==
    {z \in UNION {[1..k -> 1..m] : k \in 0..m} : \A i, j \in DOMAIN z : i < j => z[i] < z[j]}

\* the Vibrations terms a PartFun is built with
VibrationsTemplates ==
    {Vibrations(FALSE, RatOne, RatOne),
     Vibrations(FALSE, <<2, 3>>, Rat(2)),
     Vibrations(TRUE, <<2, 3>>, RatOne)}

\* the arguments of the direct calls
GasPressures == {None, Some(RatOne), Some(Rat(2))}
GasDims == {1, 2, 3}
GasLaws == {IdealGasLaw(p, d).obj : p \in {q \in GasPressures : ~IsNone(q)}, d \in GasDims}
               \cup {IdealGasLaw(None, 3).obj}
GasLawMethods == {"pv", "pv0", "pv1", "pv2", "helper0", "helper1", "helper2"}
CallTemps == {RatZero, RatHalf, Rat(3)}
CallPowers == -2..2
EnergyLevels == {<<0>>, <<0, 1>>, <<0, 0, 3>>, <<3, 3, 5>>}
ScalingFactors == {RatOne, <<2, 3>>}

\* IdealGasLaw(pressure, dim)
NewIdealGasLaw(pressure, dim) ==
    /\ ret = NoCall
    /\ ret' = [op |-> "IdealGasLaw", pressure |-> pressure, dim |-> dim,
               res |-> IdealGasLaw(pressure, dim)]
    /\ UNCHANGED <<objs, lists, pfs, user, ncalls>>

\* gaslaw.pv(temp), gaslaw.pv0(temp, n), ..., gaslaw.helper2(temp, n)
GasLawCall(self, fn, temp, n) ==
    /\ ret = NoCall
    /\ ret' = [op |-> "gaslaw", self |-> self, fn |-> fn, temp |-> temp, n |-> n,
               res |-> CASE fn = "pv" -> Ok(IdealGasLaw_pv(self, temp))
                         [] fn = "pv0" -> IdealGasLaw_pv0(self, temp, n)
                         [] fn = "pv1" -> IdealGasLaw_pv1(self, temp, n)
                         [] fn = "pv2" -> IdealGasLaw_pv2(self, temp, n)
                         [] fn = "helper0" -> IdealGasLaw_helper0(self, temp, n)
                         [] fn = "helper1" -> IdealGasLaw_helper1(self, temp, n)
                         [] fn = "helper2" -> IdealGasLaw_helper2(self, temp, n)]
    /\ UNCHANGED <<objs, lists, pfs, user, ncalls>>

\* ExtTrans(cp, gaslaw, dim, mobile)
NewExtTrans(cp, gaslaw, dim, mobile) ==
    /\ ret = NoCall
    /\ ret' = [op |-> "ExtTrans", cp |-> cp, gaslaw |-> gaslaw, dim |-> dim,
               res |-> ExtTrans_init(cp, gaslaw, dim, mobile)]
    /\ UNCHANGED <<objs, lists, pfs, user, ncalls>>

\* helper1_levels(temp, n, energy_levels), helper2_levels(temp, n, energy_levels)
LevelsCall(K, temp, n, energy_levels) ==
    /\ ret = NoCall
    /\ ret' = [op |-> "levels", K |-> K, temp |-> temp, n |-> n,
               energy_levels |-> energy_levels,
               res |-> IF K = 1 THEN helper1_levels(temp, n, energy_levels)
                       ELSE helper2_levels(temp, n, energy_levels)]
    /\ UNCHANGED <<objs, lists, pfs, user, ncalls>>

\* helper0_levels(temp, n, energy_levels)
Helper0LevelsCall(temp, n, energy_levels) ==
    /\ ret = NoCall
    /\ ret' = [op |-> "helper0_levels", temp |-> temp, n |-> n,
               energy_levels |-> energy_levels,
               res |-> helper0_levels(temp, n, energy_levels)]
    /\ UNCHANGED <<objs, lists, pfs, user, ncalls>>

\* helperK_vibrations(temp, n, freqs, classical, freq_scaling, zp_scaling)
VibrationsCall(K, temp, n, freqs, classical, freq_scaling, zp_scaling) ==
    /\ ret = NoCall
    /\ ret' = [op |-> "vibrations", K |-> K, temp |-> temp, n |-> n, freqs |-> freqs,
               classical |-> classical, freq_scaling |-> freq_scaling,
               zp_scaling |-> zp_scaling,
               res |-> CASE K = 0 -> helper0_vibrations(temp, n, freqs, classical,
                                                        freq_scaling, zp_scaling)
                         [] K = 1 -> helper1_vibrations(temp, n, freqs, classical,
                                                        freq_scaling, zp_scaling)
                         [] K = 2 -> helper2_vibrations(temp, n, freqs, classical,
                                                        freq_scaling, zp_scaling)]
    /\ UNCHANGED <<objs, lists, pfs, user, ncalls>>

\* PartFun(nma, [v]) for a Vibrations term v and a normal-mode result nma like
\* the first of NMAs, with the frequencies freqs and the zero indexes zeros
\* (the PartFun record keeps them: history, not attributes of the object)
ConstructOn(freqs, zeros, v) ==
    /\ ret = NoCall
    /\ \E nma \in {[NMAs[1] EXCEPT !.freqs = freqs, !.zeros = zeros]} :
       \E r \in {PartFun_init(Append(objs, v), <<Len(objs) + 1>>, nma)} :
       LET self == [terms |-> Len(lists) + 1, attrs |-> r.attrs, energy |-> nma.energy,
                    title |-> nma.title, name |-> "total",
                    nma |-> 1, given |-> Some(<<Len(objs) + 1>>),
                    freqs |-> freqs, zeros |-> zeros]
       IN  /\ objs' = IF r.ok THEN r.heap ELSE objs
           /\ lists' = IF r.ok THEN Append(lists, r.terms) ELSE lists
           /\ pfs' = IF r.ok THEN Append(pfs, self) ELSE pfs
           /\ ret' = [op |-> "PartFun", nma |-> 1, freqs |-> freqs, zeros |-> zeros,
                      arg |-> [kind |-> "new", content |-> <<Len(objs) + 1>>],
                      given |-> <<Len(objs) + 1>>,
                      ok |-> r.ok,
                      err |-> IF r.ok THEN None ELSE Some(r.err),
                      terms |-> r.terms, inits |-> r.inits]
    /\ ncalls' = ncalls + 1
    /\ UNCHANGED user

\* vib.log_terms(temp), ..., vib.free_energy_terms(temp) on the Vibrations term
\* of a PartFun
EvalQuantityTerms(id, q, temp) ==
    /\ ret.op = "PartFun"
    /\ objs[id].cls = "Vibrations"
    /\ ret' = [op |-> "quantity_terms", id |-> id, q |-> q, temp |-> temp,
               res |-> StatFysTerms_quantity_terms(objs[id], q, temp)]
    /\ UNCHANGED <<objs, lists, pfs, user, ncalls>>

\* the longest array of values written by dump_values
MaxValues == 9

\* the loop of Info.dump_values over enumerate(values), from the 0-based
\* position counter on: a part per formatted value and a line break with the
\* indentation after every num_col-th value
RECURSIVE dump_values_loop(_, _, _, _)
dump_values_loop(values, num_col, counter, parts) ==
    IF counter >= Len(values) THEN parts
    ELSE LET appended == Append(parts, [kind |-> "value", value |-> values[counter + 1]])
         IN  dump_values_loop(values, num_col, counter + 1,
                              IF counter % num_col = num_col - 1
                              THEN Append(appended, [kind |-> "break"])
                              ELSE appended)

\* a dump_values that keeps the last line break
dump_values_keep_break(label, values, num_col) ==
    LET parts == dump_values_loop(values, IF IsNone(num_col) THEN 8 ELSE Get(num_col), 0,
                                  <<[kind |-> "indent"]>>)
    IN  IF Len(parts) > 1
        THEN <<[kind |-> "label", label |-> label]>> \o parts
        ELSE << >>

\* Info.dump_values(f, label, values, format, num_col), num_col >= 1 or not
\* given: the parts of the one string it prints, << >> when it prints nothing
dump_values(label, values, num_col) ==
    LET parts == dump_values_loop(values, IF IsNone(num_col) THEN 8 ELSE Get(num_col), 0,
                                  <<[kind |-> "indent"]>>)
    IN  IF Len(parts) > 1
        THEN <<[kind |-> "label", label |-> label]>>
                 \o (IF parts[Len(parts)] = [kind |-> "break"]
                     THEN SubSeq(parts, 1, Len(parts) - 1) ELSE parts)
        ELSE << >>

\* term.dump_values(f, label, values, format[, num_col]) on a term of the user
DumpValuesCall(values, num_col) ==
    /\ ret = NoCall
    /\ ret' = [op |-> "dump_values", values |-> values, num_col |-> num_col,
               out |-> dump_values("Real Wavenumbers [1/cm]", values, num_col)]
    /\ UNCHANGED <<objs, lists, pfs, user, ncalls>>

\* the (delta_G, temp) pairs of the corrections: floats, at temperatures
\* the calls are made at
PCMPoints == {<<Rat(5), Rat(3)>>, <<Rat(8), RatHalf>>, <<Rat(-1), RatZero>>}

\* PCMCorrection(point1, point2).free_energy(temp) and the other derived
\* quantities, on a fresh term (a PCMCorrection has no init_part_fun of its own)
PCMCorrectionCall(point1, point2, q, temp) ==
    /\ ret = NoCall
    /\ ret' = [op |-> "pcm", self |-> PCMCorrection(point1, point2), q |-> q, temp |-> temp,
               res |-> term_quantity(PCMCorrection(point1, point2), q, temp)]
    /\ UNCHANGED <<objs, lists, pfs, user, ncalls>>

NextCalls ==
    \/ \E pressure \in GasPressures, dim \in GasDims : NewIdealGasLaw(pressure, dim)
    \/ \E self \in GasLaws, fn \in GasLawMethods, temp \in CallTemps, n \in CallPowers :
           GasLawCall(self, fn, temp, n)
    \/ \E cp \in BOOLEAN, gaslaw \in {None} \cup {Some(g) : g \in GasLaws}, dim \in GasDims :
           NewExtTrans(cp, gaslaw, dim, None)
    \/ \E K \in 1..2, temp \in CallTemps, n \in CallPowers, energy_levels \in EnergyLevels :
           LevelsCall(K, temp, n, energy_levels)
    \/ \E temp \in CallTemps, n \in CallPowers, energy_levels \in EnergyLevels :
           Helper0LevelsCall(temp, n, energy_levels)
    \/ \E K \in 0..2, temp \in CallTemps, n \in CallPowers, freqs \in {<< >>, <<2>>, <<2, 5>>},
          classical \in BOOLEAN, freq_scaling \in ScalingFactors, zp_scaling \in ScalingFactors :
           VibrationsCall(K, temp, n, freqs, classical, freq_scaling, zp_scaling)
    \/ \E nma \in NmaIds, kinds \in UNION {[1..m -> EvalTemplates] : m \in {0, 1}} :
           ret = NoCall /\ ConstructInline(nma, kinds)
    \/ \E nma \in NmaIds, name \in {"energy", "solvent"} :
           ret = NoCall /\ ConstructInline(nma, <<UserTerm(name)>>)
    \/ \E freqs \in FreqArrays, v \in VibrationsTemplates :
           \E zeros \in IndexArrays(Len(freqs)) : ConstructOn(freqs, zeros, v)
    \/ \E t \in TermsOfPartFuns, K \in 0..2, temp \in CallTemps, n \in CallPowers :
           EvalHelper("term", t, K, temp, n)
    \/ \E t \in TermsOfPartFuns, K \in 0..2, temp \in CallTemps, n \in CallPowers :
           EvalHelper("terms", t, K, temp, n)
    \/ \E t \in TermsOfPartFuns, q \in Quantities, temp \in CallTemps :
           EvalQuantity("term", t, q, temp)
    \/ \E t \in TermsOfPartFuns, q \in Quantities, temp \in CallTemps :
           EvalQuantityTerms(t, q, temp)
    \/ \E p \in DOMAIN pfs, q \in Quantities, temp \in CallTemps :
           EvalQuantity("PartFun", p, q, temp)
    \/ \E values \in {[i \in 1..N |-> 10 * i] : N \in 0..MaxValues},
          num_col \in {None} \cup {Some(c) : c \in 1..3} :
           DumpValuesCall(values, num_col)
    \/ \E point1 \in PCMPoints, point2 \in {None} \cup {Some(p) : p \in PCMPoints},
          q \in Quantities, temp \in CallTemps :
           PCMCorrectionCall(point1, point2, q, temp)

\* The direct use of the classes and functions, for any power of the
\* temperature and any frequency array.
SpecCalls == Init /\ [][NextCalls]_vars

-----------------------------------------------------------------------------
(* Properties of PartFun construction.                                     *)

\* the last call was a PartFun(...) that returned; pf is pfs[Len(pfs)]
Constructed == ret.op = "PartFun" /\ ret.ok

\* the positions of a term collection that hold a term of the name
Named(heap, terms, name) == {i \in DOMAIN terms : heap[terms[i]].name = name}

\* the attributes of a term object (ninit is the count of init_part_fun calls)
AttrsOf(o) == [f \in DOMAIN o \ {"ninit"} |-> o[f]]

\* how many elements of the sequence s are x
CountIn(s, x) == Cardinality({i \in DOMAIN s : s[i] = x})

\* C1: after a PartFun construction that succeeds, pf.terms holds exactly one
\* term named "vibrational" and exactly one named "electronic", and a default
\* (an object that is not in the list the user gave) is there only when the
\* user's list had no term of that name.
C1_ExactlyOneVibrationalAndElectronic ==
    Constructed =>
        \A name \in {"vibrational", "electronic"} :
            /\ Cardinality(Named(objs, ret.terms, name)) = 1
            /\ \A i \in Named(objs, ret.terms, name) :
                   ret.terms[i] \notin Range(ret.given)
                       => Named(objs, ret.given, name) = {}

\* C2: a PartFun call whose list holds two terms of the same name raises, and
\* no PartFun has two same-named terms in its terms collection.
C2_DuplicateNamesRejected ==
    /\ ret.op = "PartFun" /\
           (\E i, j \in DOMAIN ret.given :
                i # j /\ objs[ret.given[i]].name = objs[ret.given[j]].name)
           => ~ret.ok
    /\ \A p \in DOMAIN pfs :
           LET terms == lists[pfs[p].terms]
           IN  \A i, j \in DOMAIN terms :
                   i # j => objs[terms[i]].name # objs[terms[j]].name

\* C3: a PartFun call whose list holds a term named "terms" raises a ValueError
\* whose message names the term, with no init_part_fun call made and no
\* PartFun produced.
C3_ReservedNameValueError ==
    ret.op = "PartFun" /\ Named(objs, ret.given, "terms") # {} =>
        /\ ~ret.ok
        /\ ret.inits = << >>
        /\ Get(ret.err) =
               [type |-> "ValueError",
                msg |-> "An additional partition function term can not have the name 'terms'"]

\* C4: once a PartFun P is constructed, no later call changes P.terms or an
\* attribute of a term of P.
C4_TermsImmutableAfterConstruction ==
    [][\A p \in DOMAIN pfs :
           /\ lists'[pfs[p].terms] = lists[pfs[p].terms]
           /\ \A t \in Range(lists[pfs[p].terms]) : AttrsOf(objs'[t]) = AttrsOf(objs[t])]_vars

\* C6: a PartFun construction that succeeds has called init_part_fun exactly
\* once on each term of the final collection, in the order of the sorted
\* collection with its defaults; an evaluation or a dump calls init_part_fun
\* on no term.
C6_InitOncePerTerm ==
    [][/\ ret'.op = "PartFun" /\ ret'.ok =>
              /\ ret'.inits = ret'.terms
              /\ \A t \in Range(ret'.terms) :
                     /\ CountIn(ret'.inits, t) = 1
                     /\ objs'[t].ninit = (IF t \in DOMAIN objs THEN objs[t].ninit ELSE 0) + 1
       /\ ret'.op \in {"helper", "quantity", "dump"} =>
              \A t \in DOMAIN objs : objs'[t].ninit = objs[t].ninit]_vars

\* the multiplicity the user gave to the Electronic term t when constructing it
ExplicitMultiplicity(t) ==
    IF t \in DOMAIN user THEN TermTemplates[user[t]].multiplicity ELSE None

\* C8: after a PartFun construction, pf.electronic.multiplicity is defined: it
\* is the m of the user's Electronic(multiplicity=m) term and otherwise the
\* multiplicity of the nma the PartFun was built from; when neither is defined
\* the construction raises a ValueError.
C8_MultiplicityResolved ==
    /\ Constructed =>
           LET pf == pfs[Len(pfs)]
               e == Get(pf.attrs["electronic"])
           IN  /\ ~IsNone(objs[e].multiplicity)
               /\ objs[e].multiplicity =
                      IF IsNone(ExplicitMultiplicity(e)) THEN NMAs[pf.nma].multiplicity
                      ELSE ExplicitMultiplicity(e)
    /\ ret.op = "PartFun" /\ IsNone(NMAs[ret.nma].multiplicity) /\
           (\A i \in Named(objs, ret.given, "electronic") :
                IsNone(ExplicitMultiplicity(ret.given[i])))
           => ~ret.ok /\ Get(ret.err).type = "ValueError"

\* the rearrangements of a sequence
Rearrangements(s) ==
    {[i \in DOMAIN s |-> s[f[i]]] :
        f \in {g \in [DOMAIN s -> DOMAIN s] : \A i, j \in DOMAIN s : g[i] = g[j] => i = j}}

\* the term objects of the blocks of a dump, in the order written
BlockObjs(out) ==
    LET blocks == SelectSeq(out, LAMBDA line : line.kind = "block")
    IN  [i \in DOMAIN blocks |-> blocks[i].obj]

\* C9: after a construction pf.terms is in ascending order of the names and is
\* the same for every permutation of the user's list; dump writes the title,
\* the energy and the zero-point lines first and then the block of each term
\* exactly once, in the order of pf.terms.
C9_SortedTermsAndDump ==
    [][ret'.op = "PartFun" /\ ret'.ok =>
           /\ \A i, j \in DOMAIN ret'.terms :
                  i < j => NameRank(objs'[ret'.terms[i]].name)
                               <= NameRank(objs'[ret'.terms[j]].name)
           /\ \A perm \in Rearrangements(ret'.given) :
                  PartFun_init(objs, perm, NMAs[ret'.nma]).terms = ret'.terms
           /\ \A d \in {PartFun_dump(objs', ret'.terms, pfs'[Len(pfs')])} :
                  d.ok =>
                      /\ [i \in 1..5 |-> d.out[i].kind] =
                             <<"title", "energy", "zero_point", "energy_zero_point",
                               "contributions">>
                      /\ \A i \in 6..Len(d.out) : d.out[i].kind # "title"
                      /\ BlockObjs(d.out) = ret'.terms
                      /\ \A t \in Range(ret'.terms) : CountIn(BlockObjs(d.out), t) = 1]_vars

\* the ValueError of ExtRot.init_part_fun
NoExternalRotation ==
    [type |-> "ValueError", msg |-> "There is no external rotation in periodic systems."]

\* the last call was a PartFun(...) on a periodic nma with an ExtRot in the list
PeriodicWithExtRot(r, heap) ==
    /\ r.op = "PartFun" /\ NMAs[r.nma].periodic
    /\ \E i \in DOMAIN r.given : heap[r.given[i]].cls = "ExtRot"

\* C10 as stated: a PartFun call with an ExtRot term on a periodic nma raises
\* the ValueError of ExtRot.init_part_fun, whatever else the list holds.
C10_AlwaysTheDomainError ==
    PeriodicWithExtRot(ret, objs) => ~ret.ok /\ Get(ret.err) = NoExternalRotation

\* C10: a PartFun call with an ExtRot term on a periodic nma never returns a
\* PartFun; when the call gets as far as init_part_fun of an ExtRot term, that
\* call raises the ValueError of ExtRot, for every symmetry_number and
\* im_threshold, and no attribute of an ExtRot term of the list is changed
\* (the inertia tensor and the symmetry number of nma are not used).  The call
\* can fail before that: in the reserved-name check (no init_part_fun call
\* made) or in init_part_fun of a term that sorts before "rotational".
C10_PeriodicExtRotRejected ==
    [][PeriodicWithExtRot(ret', objs) =>
           /\ ~ret'.ok
           /\ \A i \in DOMAIN ret'.given :
                  objs[ret'.given[i]].cls = "ExtRot"
                      => AttrsOf(objs'[ret'.given[i]]) = AttrsOf(objs[ret'.given[i]])
           /\ ret'.inits # << >> /\ objs'[ret'.inits[Len(ret'.inits)]].cls = "ExtRot"
                  => Get(ret'.err) = NoExternalRotation
           /\ Get(ret'.err) # NoExternalRotation
                  => \/ ret'.inits = << >>
                     \/ NameRank(objs'[ret'.inits[Len(ret'.inits)]].name) < NameRank("rotational")]_vars

\* a PartFun call on a periodic nma got to init_part_fun of an ExtRot term with
\* a non-zero symmetry_number and raised the ValueError of ExtRot
C10_Witness ==
    /\ PeriodicWithExtRot(ret, objs) /\ ~ret.ok /\ Get(ret.err) = NoExternalRotation
    /\ objs[ret.inits[Len(ret.inits)]].symmetry_number = 2
    /\ objs[ret.inits[Len(ret.inits)]].im_threshold = 4
    /\ objs[ret.inits[Len(ret.inits)]].ninit = 1

\* C11: a PartFun call that raises leaves no PartFun, and leaves the list it
\* was given and the term objects in that list as they were before the call.
C11_FailedConstructionLeavesNoTrace ==
    [][ret'.op = "PartFun" /\ ~ret'.ok =>
           /\ pfs' = pfs
           /\ ret'.arg.kind # "none" =>
                  /\ lists'[IF ret'.arg.kind = "old" THEN ret'.arg.list ELSE Len(lists')]
                         = ret'.given
                  /\ \A t \in Range(ret'.given) : AttrsOf(objs'[t]) = AttrsOf(objs[t])]_vars


-----------------------------------------------------------------------------
(* Properties of evaluation.                                               *)

\* the result of the evaluation call that ret records, on the objects of a state
ResultOn(heap, ls, ps, r) ==
    IF r.op = "helper"
    THEN (CASE r.of = "PartFun" ->
                   PartFun_helper(heap, ls[ps[r.id].terms], r.K, r.temp, r.n)
            [] r.of = "term" -> term_helper(heap[r.id], r.K, r.temp, r.n)
            [] r.of = "terms" -> Vibrations_helper_terms(heap[r.id], r.K, r.temp, r.n))
    ELSE (IF r.of = "PartFun"
          THEN PartFun_quantity(heap, ls[ps[r.id].terms], ps[r.id].energy, r.q, r.temp)
          ELSE term_quantity(heap[r.id], r.q, r.temp))

RECURSIVE SumOfTerms(_, _)
SumOfTerms(vals, i) ==
    IF i = 0 THEN VZero ELSE VAdd(vals[i].v, SumOfTerms(vals, i - 1))

\* C7: where every term's helperK(T, n) is defined, PartFun.helperK(T, n) is
\* the sum of the terms' helperK(T, n); where every term's quantity is
\* defined, free_energy and internal_energy are energy plus the sum of the
\* terms' values and entropy is the sum of the terms' values.
C7_PartFunIsSumOfTerms ==
    ret.op \in {"helper", "quantity"} /\ ret.of = "PartFun" =>
        LET pf == pfs[ret.id]
            terms == lists[pf.terms]
            vals == [i \in DOMAIN terms |->
                        IF ret.op = "helper"
                        THEN term_helper(objs[terms[i]], ret.K, ret.temp, ret.n)
                        ELSE term_quantity(objs[terms[i]], ret.q, ret.temp)]
            total == SumOfTerms(vals, Len(vals))
        IN  (\A i \in DOMAIN vals : vals[i].ok) =>
                IF ret.op = "helper" \/ ret.q = "entropy"
                THEN ret.res = Ok(total)
                ELSE ret.q \in {"free_energy", "internal_energy"}
                         => ret.res = Ok(VAdd(VRat(pf.energy), total))

\* PartFun.helper0(0, n) was evaluated at T = 0 and is the non-zero sum of the
\* values of four terms
C7_Witness ==
    /\ ret.op = "helper" /\ ret.of = "PartFun" /\ ret.K = 0 /\ ret.temp = RatZero
    /\ ret.res.ok /\ ret.res.v # VZero
    /\ Len(lists[pfs[ret.id].terms]) = 4
    /\ \A i \in DOMAIN lists[pfs[ret.id].terms] :
           term_helper(objs[lists[pfs[ret.id].terms][i]], 0, RatZero, ret.n).ok

\* free_energy(T) of a PartFun was evaluated at T > 0 with the energy offset
C7_WitnessOffset ==
    /\ ret.op = "quantity" /\ ret.of = "PartFun" /\ ret.q = "free_energy"
    /\ ret.temp # RatZero /\ ret.res.ok

-----------------------------------------------------------------------------
(* Properties of the helper functions at T = 0.                            *)

\* C12: at T = 0, helper0, helper1 and helper2 of a built-in contribution and
\* of a PartFun return a value or raise NotImplementedError, for every n;
\* no call raises another error.
C12_ZeroTemperatureHelpers ==
    ret.op = "helper" /\ ret.of \in {"PartFun", "term"} /\ ret.temp = RatZero =>
        ret.res.ok \/ ret.res.err.type = "NotImplementedError"

\* C13: at T = 0, helper1 and helper2 of a system of discrete levels, of the
\* harmonic oscillators (classical and quantum), of IdealGasLaw and of ExtTrans
\* (with and without constant pressure) raise NotImplementedError, for every n
\* and every other argument.
C13_DerivativesRaiseAtZero ==
    /\ ret.op = "levels" /\ ret.temp = RatZero => ret.res = NotImplementedError
    /\ ret.op = "vibrations" /\ ret.K \in {1, 2} /\ ret.temp = RatZero
           => ret.res = NotImplementedError
    /\ ret.op = "gaslaw" /\ ret.fn \in {"helper1", "helper2"} /\ ret.temp = RatZero
           => ret.res = NotImplementedError
    /\ ret.op = "helper" /\ ret.of = "term" /\ ret.K \in {1, 2} /\ ret.temp = RatZero
           /\ objs[ret.id].cls = "ExtTrans"
           => ret.res = NotImplementedError

\* helper1(0, 2) of an ExtTrans without constant pressure raised NotImplementedError
C13_Witness ==
    /\ ret.op = "helper" /\ ret.of = "term" /\ ret.K = 1 /\ ret.temp = RatZero /\ ret.n = 2
    /\ objs[ret.id].cls = "ExtTrans" /\ ~objs[ret.id].cp
    /\ ret.res = NotImplementedError

\* C14: helper0(0, n) of IdealGasLaw, of ExtTrans (cp true or false) and of
\* ExtRot returns exactly 0 when n > 0 and raises NotImplementedError when
\* n <= 0.
C14_Helper0AtZero ==
    \/ ret.op = "gaslaw" /\ ret.fn = "helper0" /\ ret.temp = RatZero
    \/ ret.op = "helper" /\ ret.of = "term" /\ ret.K = 0 /\ ret.temp = RatZero
           /\ objs[ret.id].cls \in {"ExtTrans", "ExtRot"}
    => ret.res = IF ret.n > 0 THEN Ok(VZero) ELSE NotImplementedError

\* helper0(0, 0) of an ExtRot term raised NotImplementedError
C14_Witness ==
    /\ ret.op = "helper" /\ ret.of = "term" /\ ret.K = 0 /\ ret.temp = RatZero /\ ret.n = 0
    /\ objs[ret.id].cls = "ExtRot"
    /\ ret.res = NotImplementedError

\* boltzmann * temp^m for temp # 0, by repeated multiplication or division
RECURSIVE TimesPower(_, _, _)
TimesPower(c, temp, m) ==
    IF m = 0 THEN c
    ELSE IF m > 0 THEN TimesPower(RatMul(c, temp), temp, m - 1)
         ELSE TimesPower(RatDiv(c, temp), temp, m + 1)

Boltzmann(c) == VTerm(c, Atom(1, 0, "one", << >>))

\* C15: pv0(0, n) is 0 for n > -1, boltzmann for n = -1 and raises
\* NotImplementedError for n < -1; for T > 0 pv0(T, n) is boltzmann * T^(n+1).
C15_Pv0 ==
    ret.op = "gaslaw" /\ ret.fn = "pv0" =>
        ret.res = IF ret.temp = RatZero
                  THEN (IF ret.n > -1 THEN Ok(VZero)
                        ELSE IF ret.n = -1 THEN Ok(Boltzmann(RatOne))
                        ELSE NotImplementedError)
                  ELSE Ok(Boltzmann(TimesPower(RatOne, ret.temp, ret.n + 1)))

\* pv0(0, -1) returned boltzmann
C15_Witness ==
    /\ ret.op = "gaslaw" /\ ret.fn = "pv0" /\ ret.temp = RatZero /\ ret.n = -1
    /\ ret.res = Ok(Boltzmann(RatOne))

\* the last call was a call of the method on IdealGasLaw(dim=3), default pressure
OnDefaultGasLaw(fn) ==
    ret.op = "gaslaw" /\ ret.fn = fn /\ ret.self = [pressure |-> RatOne, dim |-> 3]

\* C16 as stated: on IdealGasLaw(dim=3) with the default pressure pv(T) is
\* boltzmann*T, pv0(0, -1) is boltzmann and pv0(0, 0) raises.
C16_Pv0OfZeroRaises ==
    /\ OnDefaultGasLaw("pv") => ret.res = Ok(Boltzmann(ret.temp))
    /\ OnDefaultGasLaw("pv0") /\ ret.temp = RatZero /\ ret.n = -1
           => ret.res = Ok(Boltzmann(RatOne))
    /\ OnDefaultGasLaw("pv0") /\ ret.temp = RatZero /\ ret.n = 0 => ~ret.res.ok

\* C16: on IdealGasLaw(dim=3) with the default pressure pv(T) is boltzmann*T,
\* pv0(0, -1) is boltzmann, pv0(0, 0) returns 0 and pv0(0, -2) raises
\* NotImplementedError.
C16_DefaultGasLawScenario ==
    /\ OnDefaultGasLaw("pv") => ret.res = Ok(Boltzmann(ret.temp))
    /\ OnDefaultGasLaw("pv0") /\ ret.temp = RatZero /\ ret.n = -1
           => ret.res = Ok(Boltzmann(RatOne))
    /\ OnDefaultGasLaw("pv0") /\ ret.temp = RatZero /\ ret.n = 0 => ret.res = Ok(VZero)
    /\ OnDefaultGasLaw("pv0") /\ ret.temp = RatZero /\ ret.n = -2
           => ret.res = NotImplementedError

\* pv(3) of the default gas law returned 3*boltzmann
C16_Witness ==
    OnDefaultGasLaw("pv") /\ ret.temp = Rat(3) /\ ret.res = Ok(Boltzmann(Rat(3)))

\* pv0(0, 0) of the default gas law returned 0
C16_WitnessZero ==
    OnDefaultGasLaw("pv0") /\ ret.temp = RatZero /\ ret.n = 0 /\ ret.res = Ok(VZero)

-----------------------------------------------------------------------------
(* Properties of the constructors of IdealGasLaw and ExtTrans.             *)

\* IdealGasLaw(dim=dim) without a pressure: 1 atm if and only if dim = 3
DefaultPressure ==
    ret.op = "IdealGasLaw" /\ IsNone(ret.pressure) =>
        /\ ret.res.ok <=> ret.dim = 3
        /\ ret.res.ok => ret.res.obj = [pressure |-> RatOne, dim |-> 3]
        /\ ~ret.res.ok => ret.res.err.type = "TypeError"

\* an ExtTrans that was constructed has a gas law of its own dim, and a gas
\* law of another dim is rejected
MatchingGasLaw ==
    /\ ret.op = "ExtTrans" /\ ret.res.ok =>
           /\ ret.res.obj.gaslaw.dim = ret.res.obj.dim /\ ret.res.obj.dim = ret.dim
           /\ "pressure" \in DOMAIN ret.res.obj.gaslaw
    /\ ret.op = "ExtTrans" /\ ~IsNone(ret.gaslaw) =>
           IF Get(ret.gaslaw).dim = ret.dim
           THEN ret.res.ok /\ ret.res.obj.gaslaw = Get(ret.gaslaw)
           ELSE ~ret.res.ok

\* C17 as stated: a gas law without pressure gets 1 atm iff dim = 3 and fails
\* otherwise; a constructed ExtTrans has a gas law of its own dim; an ExtTrans
\* built without a gas law is constructed with a default gas law of its dim,
\* for every dim; a gas law of another dim is rejected.
C17_DefaultGasLawForEveryDim ==
    /\ DefaultPressure
    /\ MatchingGasLaw
    /\ ret.op = "ExtTrans" /\ IsNone(ret.gaslaw) =>
           ret.res.ok /\ ret.res.obj.gaslaw.dim = ret.dim

\* C17: a gas law without pressure gets 1 atm iff dim = 3 and fails otherwise;
\* a constructed ExtTrans has a gas law of its own dim; an ExtTrans built
\* without a gas law gets IdealGasLaw(dim=3) at 1 atm when its dim is 3 and
\* its construction raises the TypeError of IdealGasLaw when its dim is not 3;
\* a gas law of another dim is rejected.
C17_GasLawOfExtTrans ==
    /\ DefaultPressure
    /\ MatchingGasLaw
    /\ ret.op = "ExtTrans" /\ IsNone(ret.gaslaw) =>
           IF ret.dim = 3
           THEN ret.res.ok /\ ret.res.obj.gaslaw = [pressure |-> RatOne, dim |-> 3]
           ELSE ret.res = IdealGasLaw(None, ret.dim) /\ ret.res.err.type = "TypeError"

\* ExtTrans(gaslaw=IdealGasLaw(pressure, dim=2), dim=3) was rejected
C17_Witness ==
    /\ ret.op = "ExtTrans" /\ ~IsNone(ret.gaslaw) /\ Get(ret.gaslaw).dim = 2 /\ ret.dim = 3
    /\ ~ret.res.ok

-----------------------------------------------------------------------------
(* Properties of the Vibrations term.                                      *)

\* the PartFun objects built from a frequency array of FreqArrays
OnFreqArray == {p \in DOMAIN pfs : "freqs" \in DOMAIN pfs[p]}

\* the Vibrations term of the PartFun p
VibOf(p) == objs[Get(pfs[p].attrs["vibrational"])]

\* C18: after the initialization of the Vibrations term every frequency of
\* nma.freqs is in exactly one of zero_freqs, positive_freqs, negative_freqs;
\* zero_freqs holds the frequencies at the indexes nma.zeros whatever their
\* sign, positive_freqs only positive and negative_freqs only negative ones;
\* helperK_terms is helperK_vibrations of positive_freqs.
C18_FrequenciesPartitioned ==
    \A p \in OnFreqArray :
        LET f == pfs[p].freqs
            zero == Get(VibOf(p).zero_freqs)
            positive == Get(VibOf(p).positive_freqs)
            negative == Get(VibOf(p).negative_freqs)
        IN  /\ \A x \in Range(f) :
                   CountIn(f, x) = CountIn(zero, x) + CountIn(positive, x) + CountIn(negative, x)
            /\ Len(f) = Len(zero) + Len(positive) + Len(negative)
            /\ zero = [i \in DOMAIN pfs[p].zeros |-> f[pfs[p].zeros[i]]]
            /\ \A i \in DOMAIN positive : positive[i] > 0
            /\ \A i \in DOMAIN negative : negative[i] < 0
            /\ ret.op = "helper" /\ ret.of = "terms" /\ objs[ret.id] = VibOf(p) /\ ret.res.ok
                   => Len(ret.res.v) = Len(positive)

\* the sum of the first i values of an array, last value first
RECURSIVE SumOfValues(_, _)
SumOfValues(a, i) == IF i = 0 THEN VZero ELSE VAdd(a[i], SumOfValues(a, i - 1))

\* the outcome a scalar call has when its array of terms is r
SummedUp(r) == IF r.ok THEN Ok(SumOfValues(r.v, Len(r.v))) ELSE r

\* C19: num_terms of an initialized Vibrations term is the number of positive
\* frequencies whose index is not in nma.zeros; helperK_terms(T, n) and each
\* *_terms quantity return num_terms values; helperK(T, n) is the sum of
\* helperK_terms(T, n), and entropy, free_energy, internal_energy and
\* heat_capacity (and log, dlog, ddlog) are the sums of their *_terms arrays;
\* where the array call raises, the scalar call raises the same.
C19_TermsSumToScalar ==
    \A p \in OnFreqArray :
        LET vib == VibOf(p)
            f == pfs[p].freqs
            on_vib == ret.id = Get(pfs[p].attrs["vibrational"])
        IN  /\ Get(vib.num_terms) =
                   Cardinality({i \in DOMAIN f : f[i] > 0 /\ i \notin Range(pfs[p].zeros)})
            /\ ret.op = "helper" /\ ret.of = "terms" /\ on_vib =>
                   /\ ret.res.ok => Len(ret.res.v) = Get(vib.num_terms)
                   /\ term_helper(vib, ret.K, ret.temp, ret.n) = SummedUp(ret.res)
            /\ ret.op = "quantity_terms" /\ on_vib =>
                   /\ ret.res.ok => Len(ret.res.v) = Get(vib.num_terms)
                   /\ term_quantity(vib, ret.q, ret.temp) = SummedUp(ret.res)

\* heat_capacity_terms(T) of a Vibrations term with two positive frequencies
\* returned two non-zero values at T > 0
C19_Witness ==
    /\ ret.op = "quantity_terms" /\ ret.q = "heat_capacity" /\ ret.temp # RatZero
    /\ ret.res.ok /\ Len(ret.res.v) = 2 /\ \A i \in 1..2 : ret.res.v[i] # VZero
    /\ \E p \in OnFreqArray : ret.id = Get(pfs[p].attrs["vibrational"])

\* helper0_terms(0, 1) of a Vibrations term without positive frequencies
\* returned the empty array
C19_WitnessEmpty ==
    /\ ret.op = "helper" /\ ret.of = "terms" /\ ret.K = 0 /\ ret.temp = RatZero
    /\ ret.res = Ok(<< >>)
    /\ \E p \in OnFreqArray :
           ret.id = Get(pfs[p].attrs["vibrational"]) /\ pfs[p].freqs = <<-1, 0>>

\* the sum of the frequencies f[i], i <= n, that are positive and whose index
\* is not in zeros
RECURSIVE SumPositive(_, _, _)
SumPositive(f, zeros, n) ==
    IF n = 0 THEN 0
    ELSE SumPositive(f, zeros, n - 1) +
             (IF f[n] > 0 /\ n \notin Range(zeros) THEN f[n] ELSE 0)

\* C20: free_energy(0) of a quantum Vibrations term is defined and is
\* zp_scaling * pi * (the sum of the positive frequencies whose index is not in
\* nma.zeros): zero and imaginary frequencies add nothing and freq_scaling has
\* no effect.
C20_ZeroPointEnergy ==
    \A p \in OnFreqArray :
        ret.op = "quantity" /\ ret.of = "term" /\ ret.q = "free_energy" /\ ret.temp = RatZero
            /\ ret.id = Get(pfs[p].attrs["vibrational"]) /\ ~VibOf(p).classical
        => ret.res = Ok(VTerm(RatMul(VibOf(p).zp_scaling,
                                     Rat(SumPositive(pfs[p].freqs, pfs[p].zeros,
                                                     Len(pfs[p].freqs)))),
                              Atom(0, 1, "one", << >>)))

\* free_energy(0) of Vibrations(freq_scaling=2/3, zp_scaling=2) on the
\* frequencies [2, 2] with the first one in nma.zeros returned 4*pi
C20_Witness ==
    /\ ret.op = "quantity" /\ ret.of = "term" /\ ret.q = "free_energy" /\ ret.temp = RatZero
    /\ \E p \in OnFreqArray :
           /\ ret.id = Get(pfs[p].attrs["vibrational"])
           /\ pfs[p].freqs = <<2, 2>> /\ pfs[p].zeros = <<1>>
           /\ VibOf(p).freq_scaling = <<2, 3>> /\ VibOf(p).zp_scaling = Rat(2)
    /\ ret.res = Ok(VTerm(Rat(4), Atom(0, 1, "one", << >>)))

-----------------------------------------------------------------------------
(* Rate coefficients and equilibrium constants of the PartFun objects.     *)
(* Both functions are called at temp > 0.  The exponential is kept as a    *)
(* product [mono, exp]: mono * exp(exp), with mono the monomial in front.  *)

\* the correction of one partition function, with no look at its attributes
gas_correction_unchecked(heap, pf, temp) ==
    IF "translational" \in DOMAIN pf.attrs
    THEN IdealGasLaw_helper0(heap[Get(pf.attrs["translational"])].gaslaw, temp, 0)
    ELSE Raise("AttributeError", "translational")

\* if hasattr(pf, "translational"): pf.translational.gaslaw.helper0(temp, 0);
\* nothing is added for a PartFun without the attribute
gas_correction(heap, pf, temp) ==
    IF "translational" \in DOMAIN pf.attrs
    THEN IdealGasLaw_helper0(heap[Get(pf.attrs["translational"])].gaslaw, temp, 0)
    ELSE Ok(VZero)

\* compute_rate_coeff(pfs_react, pf_trans, temp, do_log); F[p] is what
\* p.free_energy(temp) returns and G[p] the correction of p, for the PartFun
\* objects p of the program
compute_rate_coeff(F, G, pfs_react, pf_trans, temp, do_log) ==
    LET delta_A == RSub(F[pf_trans],
                        SumHelpers([i \in DOMAIN pfs_react |-> F[pfs_react[i]]], 1, VZero))
        log0 == IF ~delta_A.ok THEN delta_A
                ELSE Ok(VScale(RatDiv(RatOne, temp), VDivK(VNeg(delta_A.v))))
        log_result ==
            RSub(RAdd(log0, SumHelpers([i \in DOMAIN pfs_react |-> G[pfs_react[i]]], 1, VZero)),
                 G[pf_trans])
    IN  IF ~log_result.ok THEN log_result
        ELSE IF do_log
             THEN Ok(VAdd(VLog(Mono(temp, 1, 0, -1, 0)), log_result.v))
             ELSE Ok([mono |-> Mono(temp, 1, 0, -1, 0), exp |-> log_result.v])

\* an equilibrium constant that corrects for the gas volume of side A only
compute_equilibrium_constant_side_A(F, G, pfs_A, pfs_B, temp, do_log) ==
    LET delta_A == RAdd(RSub(Ok(VZero),
                             SumHelpers([i \in DOMAIN pfs_A |-> F[pfs_A[i]]], 1, VZero)),
                        SumHelpers([i \in DOMAIN pfs_B |-> F[pfs_B[i]]], 1, VZero))
        log0 == IF ~delta_A.ok THEN delta_A
                ELSE Ok(VScale(RatDiv(RatOne, temp), VDivK(VNeg(delta_A.v))))
        log_K == RAdd(log0, SumHelpers([i \in DOMAIN pfs_A |-> G[pfs_A[i]]], 1, VZero))
    IN  IF ~log_K.ok THEN log_K
        ELSE IF do_log THEN log_K
             ELSE Ok([mono |-> MonoRat(RatOne), exp |-> log_K.v])

\* compute_equilibrium_constant(pfs_A, pfs_B, temp, do_log), F and G as above
compute_equilibrium_constant(F, G, pfs_A, pfs_B, temp, do_log) ==
    LET delta_A == RAdd(RSub(Ok(VZero),
                             SumHelpers([i \in DOMAIN pfs_A |-> F[pfs_A[i]]], 1, VZero)),
                        SumHelpers([i \in DOMAIN pfs_B |-> F[pfs_B[i]]], 1, VZero))
        log0 == IF ~delta_A.ok THEN delta_A
                ELSE Ok(VScale(RatDiv(RatOne, temp), VDivK(VNeg(delta_A.v))))
        log_K == RSub(RAdd(log0, SumHelpers([i \in DOMAIN pfs_A |-> G[pfs_A[i]]], 1, VZero)),
                      SumHelpers([i \in DOMAIN pfs_B |-> G[pfs_B[i]]], 1, VZero))
    IN  IF ~log_K.ok THEN log_K
        ELSE IF do_log THEN log_K
             ELSE Ok([mono |-> MonoRat(RatOne), exp |-> log_K.v])

\* compute_rate_coeff on the PartFun objects of the program, after a PartFun(...)
\* call; the result is kept with the free energies the call evaluated
ComputeRate(pfs_react, pf_trans, temp, do_log) ==
    /\ ret.op = "PartFun"
    /\ \E F \in {[p \in DOMAIN pfs |->
                     PartFun_quantity(objs, lists[pfs[p].terms], pfs[p].energy,
                                      "free_energy", temp)]},
          G \in {[p \in DOMAIN pfs |-> gas_correction(objs, pfs[p], temp)]} :
           ret' = [op |-> "rate", pfs_react |-> pfs_react, pf_trans |-> pf_trans,
                   temp |-> temp, do_log |-> do_log, F |-> F, G |-> G,
                   res |-> compute_rate_coeff(F, G, pfs_react, pf_trans, temp, do_log)]
    /\ UNCHANGED <<objs, lists, pfs, user, ncalls>>

\* compute_equilibrium_constant on the PartFun objects of the program
ComputeEquilibrium(pfs_A, pfs_B, temp, do_log) ==
    /\ ret.op = "PartFun"
    /\ \E F \in {[p \in DOMAIN pfs |->
                     PartFun_quantity(objs, lists[pfs[p].terms], pfs[p].energy,
                                      "free_energy", temp)]},
          G \in {[p \in DOMAIN pfs |-> gas_correction(objs, pfs[p], temp)]} :
           ret' = [op |-> "equilibrium", pfs_A |-> pfs_A, pfs_B |-> pfs_B,
                   temp |-> temp, do_log |-> do_log, F |-> F, G |-> G,
                   res |-> compute_equilibrium_constant(F, G, pfs_A, pfs_B, temp, do_log)]
    /\ UNCHANGED <<objs, lists, pfs, user, ncalls>>

\* The reaction scripts: ExtTrans terms (TermTemplates[5]) built by the user, two
\* PartFun calls without terms or on a list of one term, then rate coefficients
\* and equilibrium constants over lists of up to two of the PartFun objects.
NextReact ==
    \/ NewTerm(5)
    \/ \E nma \in NmaIds,
          arg \in {[kind |-> "none"]}
                      \cup {[kind |-> "new", content |-> <<t>>] : t \in DOMAIN user} :
           Construct(nma, arg)
    \/ \E pfs_react \in UNION {[1..m -> DOMAIN pfs] : m \in 0..2}, pf_trans \in DOMAIN pfs,
          temp \in CallTemps \ {RatZero}, do_log \in BOOLEAN :
           ComputeRate(pfs_react, pf_trans, temp, do_log)
    \/ \E pfs_A \in UNION {[1..m -> DOMAIN pfs] : m \in 0..2},
          pfs_B \in UNION {[1..m -> DOMAIN pfs] : m \in 0..2},
          temp \in CallTemps \ {RatZero}, do_log \in BOOLEAN :
           ComputeEquilibrium(pfs_A, pfs_B, temp, do_log)

SpecReact == Init /\ [][NextReact]_vars

-----------------------------------------------------------------------------
(* Relations between the derived quantities.                               *)

\* the derived quantity q of the object the last quantity call was made on
SameObject(q) ==
    IF ret.of = "PartFun"
    THEN PartFun_quantity(objs, lists[pfs[ret.id].terms], pfs[ret.id].energy, q, ret.temp)
    ELSE term_quantity(objs[ret.id], q, ret.temp)

\* helperK(temp, n) of the object the last helper call was made on
SameHelper(n) ==
    IF ret.of = "PartFun"
    THEN PartFun_helper(objs, lists[pfs[ret.id].terms], ret.K, ret.temp, n)
    ELSE term_helper(objs[ret.id], ret.K, ret.temp, n)

\* C21: at T > 0, on a built-in term and on a PartFun, entropy(T) is
\* (internal_energy(T) - free_energy(T)) / T, and helper0(T, 1) = T * helper0(T, 0),
\* helper1(T, 2) = T * helper1(T, 1).
C21_ThermodynamicConsistency ==
    /\ ret.op = "quantity" /\ ret.q = "entropy" /\ ret.temp # RatZero =>
           LET u == SameObject("internal_energy")
               f == SameObject("free_energy")
           IN  /\ ret.res.ok <=> u.ok /\ f.ok
               /\ ret.res.ok =>
                      ret.res.v = VScale(RatDiv(RatOne, ret.temp), VSub(u.v, f.v))
    /\ ret.op = "helper" /\ ret.of \in {"PartFun", "term"} /\ ret.temp # RatZero
           /\ <<ret.K, ret.n>> \in {<<0, 0>>, <<1, 1>>} /\ ret.res.ok
           => SameHelper(ret.n + 1) = Ok(VScale(ret.temp, ret.res.v))

\* entropy(3) of a PartFun with a translational term was evaluated and is not 0
C21_Witness ==
    /\ ret.op = "quantity" /\ ret.of = "PartFun" /\ ret.q = "entropy" /\ ret.temp = Rat(3)
    /\ ret.res.ok /\ ret.res.v # VZero
    /\ "translational" \in DOMAIN pfs[ret.id].attrs

\* the straight line through the two points, at temp
LineThrough(p1, p2, temp) ==
    RatAdd(p1[1], RatDiv(RatMul(RatSub(p2[1], p1[1]), RatSub(temp, p1[2])),
                         RatSub(p2[2], p1[2])))

\* C22: free_energy(T) of a PCMCorrection is F(T) for every T >= 0, T = 0
\* included: delta_G1 with point1 only, the line through the two points (of
\* different temperatures) with point2; so free_energy(T1) = delta_G1 and
\* free_energy(T2) = delta_G2; the second derivative of F is always zero.
C22_FreeEnergyIsF ==
    ret.op = "pcm" =>
        LET p1 == ret.self.point1
            F == PCMCorrection_eval_free(ret.self, ret.temp)
        IN  /\ F.ok => F.v[3] = RatZero
            /\ ret.q = "free_energy" /\ IsNone(ret.self.point2) => ret.res = Ok(VRat(p1[1]))
            /\ ret.q = "free_energy" /\ ~IsNone(ret.self.point2) =>
                   LET p2 == Get(ret.self.point2)
                   IN  p2[2] # p1[2] =>
                           /\ ret.res = Ok(VRat(LineThrough(p1, p2, ret.temp)))
                           /\ ret.temp = p1[2] => ret.res = Ok(VRat(p1[1]))
                           /\ ret.temp = p2[2] => ret.res = Ok(VRat(p2[1]))

\* the free energy of a two-point correction at 0, the temperature of neither point
C22_Witness ==
    /\ ret.op = "pcm" /\ ret.q = "free_energy" /\ ret.temp = RatZero
    /\ ret.self.point1 = <<Rat(5), Rat(3)>> /\ ret.self.point2 = Some(<<Rat(8), RatHalf>>)
    /\ ret.res = Ok(VRat(<<43, 5>>))

-----------------------------------------------------------------------------
(* Properties of the rate coefficient and the equilibrium constant.        *)

\* how often the PartFun p stands in the list s
TimesIn(s, p) == Cardinality({i \in DOMAIN s : s[i] = p})

\* the sum of n[p] * v[p] over the PartFun objects from p on
RECURSIVE Weighted(_, _, _)
Weighted(n, v, p) ==
    IF p > Len(pfs) THEN VZero ELSE VAdd(VScale(Rat(n[p]), v[p]), Weighted(n, v, p + 1))

\* the PartFun p carries a translational contribution
Translating(p) == \E i \in DOMAIN lists[pfs[p].terms] : objs[lists[pfs[p].terms][i]].cls = "ExtTrans"

\* ln(boltzmann * temp / pressure) of the gas law of the translational term of p
VolumeTerm(p, temp) ==
    LET terms == lists[pfs[p].terms]
        t == terms[CHOOSE i \in DOMAIN terms : objs[terms[i]].cls = "ExtTrans"]
    IN  VLog(Mono(RatDiv(temp, objs[t].gaslaw.pressure), 1, 0, 0, -1))

\* -delta_A / (boltzmann * temp), delta_A the free energies of the PartFun
\* objects with the signs n[p]
MinusDeltaA(n, temp) ==
    VScale(RatDiv(Rat(-1), temp),
           VDivK(Weighted(n, [p \in DOMAIN pfs |-> ret.F[p].v], 1)))

\* -delta_A / (k T) plus the gas-volume corrections, n[p] times that of p
LogResult(n, temp) ==
    VAdd(MinusDeltaA([p \in DOMAIN pfs |-> -n[p]], temp),
         Weighted(n, [p \in DOMAIN pfs |-> IF Translating(p) THEN VolumeTerm(p, temp)
                                           ELSE VZero], 1))

\* C23: at T > 0 compute_rate_coeff and compute_equilibrium_constant apply the
\* correction gaslaw.helper0(T, 0) once for each PartFun with a translational
\* contribution (added for a reactant or member of A, subtracted for the
\* transition state or a member of B) and for no other; a PartFun without one
\* contributes its free energy only and no call fails; when no PartFun has one
\* the logarithm is -delta_A / (k T).
C23_GasVolumeCorrection ==
    /\ ret.op = "equilibrium" =>
           LET n == [p \in DOMAIN pfs |-> TimesIn(ret.pfs_A, p) - TimesIn(ret.pfs_B, p)]
               log_K == IF ret.do_log THEN ret.res.v ELSE ret.res.v.exp
           IN  /\ ret.res.ok
               /\ log_K = LogResult(n, ret.temp)
               /\ (\A p \in Range(ret.pfs_A) \cup Range(ret.pfs_B) : ~Translating(p))
                      => log_K = MinusDeltaA([p \in DOMAIN pfs |-> -n[p]], ret.temp)
    /\ ret.op = "rate" =>
           LET n == [p \in DOMAIN pfs |->
                        TimesIn(ret.pfs_react, p) - (IF p = ret.pf_trans THEN 1 ELSE 0)]
               log_result == IF ret.do_log
                             THEN VSub(ret.res.v, VLog(Mono(ret.temp, 1, 0, -1, 0)))
                             ELSE ret.res.v.exp
           IN  /\ ret.res.ok
               /\ log_result = LogResult(n, ret.temp)
               /\ (\A p \in Range(ret.pfs_react) \cup {ret.pf_trans} : ~Translating(p))
                      => log_result = MinusDeltaA([p \in DOMAIN pfs |-> -n[p]], ret.temp)

\* a rate coefficient of a reactant with a translational term and a transition
\* state without one: the correction of the reactant stays in the result
C23_Witness ==
    /\ ret.op = "rate" /\ ret.do_log /\ Len(ret.pfs_react) = 1
    /\ Translating(ret.pfs_react[1]) /\ ~Translating(ret.pf_trans)
    /\ ret.res.ok
    /\ VSub(ret.res.v, VLog(Mono(ret.temp, 1, 0, -1, 0)))
           # MinusDeltaA([p \in DOMAIN pfs |->
                            (IF p = ret.pf_trans THEN 1 ELSE 0) - TimesIn(ret.pfs_react, p)],
                        ret.temp)

\* the exponential of a value, and the logarithm of a product mono * exp(exp)
ExpOf(v) == [mono |-> MonoRat(RatOne), exp |-> v]
LogOf(x) == VAdd(VLog(x.mono), x.exp)

\* C30: for all lists A and B and every T > 0 the logarithm of
\* compute_equilibrium_constant(B, A) is minus that of (A, B), it is 0 when A
\* and B are the same list, and the result with do_log=False is the
\* exponential of the result with do_log=True; compute_rate_coeff with
\* do_log=True returns the logarithm of what it returns with do_log=False.
C30_Antisymmetry ==
    /\ ret.op = "equilibrium" =>
           LET log_K == compute_equilibrium_constant(ret.F, ret.G, ret.pfs_A, ret.pfs_B,
                                                     ret.temp, TRUE)
               swapped == compute_equilibrium_constant(ret.F, ret.G, ret.pfs_B, ret.pfs_A,
                                                       ret.temp, TRUE)
           IN  /\ ret.res.ok /\ log_K.ok /\ swapped.ok
               /\ swapped.v = VNeg(log_K.v)
               /\ ret.pfs_A = ret.pfs_B => log_K.v = VZero
               /\ ret.do_log => ret.res = log_K
               /\ ~ret.do_log => ret.res.v = ExpOf(log_K.v)
    /\ ret.op = "rate" =>
           LET log_k == compute_rate_coeff(ret.F, ret.G, ret.pfs_react, ret.pf_trans,
                                           ret.temp, TRUE)
               k == compute_rate_coeff(ret.F, ret.G, ret.pfs_react, ret.pf_trans,
                                       ret.temp, FALSE)
           IN  /\ ret.res.ok /\ log_k.ok /\ k.ok
               /\ ret.res = (IF ret.do_log THEN log_k ELSE k)
               /\ log_k.v = LogOf(k.v)

\* the logarithm of an equilibrium constant between a PartFun with a
\* translational term and one without, which is not 0
C30_Witness ==
    /\ ret.op = "equilibrium" /\ ret.do_log
    /\ Len(ret.pfs_A) = 1 /\ Len(ret.pfs_B) = 1
    /\ Translating(ret.pfs_A[1]) /\ ~Translating(ret.pfs_B[1])
    /\ ret.res.ok /\ ret.res.v # VZero

-----------------------------------------------------------------------------
(* PartFun objects built without a terms argument.                         *)

\* the terms of the PartFun p in the state the step leaves
TermsAfter(p) == lists'[pfs'[p].terms]

\* C24: PartFun objects constructed without a terms argument have pairwise
\* distinct terms collections and default Vibrations and Electronic objects:
\* a later construction never adds to, reorders or re-initializes the terms
\* of an earlier one, and each has exactly the two default terms.
C24_DefaultTermsNotShared ==
    [][(ret'.op = "PartFun" /\ ret'.arg.kind = "none"
            /\ \A p \in DOMAIN pfs' : IsNone(pfs'[p].given)) =>
           /\ \A p, q \in DOMAIN pfs' :
                  p # q => /\ pfs'[p].terms # pfs'[q].terms
                           /\ Range(TermsAfter(p)) \cap Range(TermsAfter(q)) = {}
           /\ \A p \in DOMAIN pfs' :
                  /\ Len(TermsAfter(p)) = 2
                  /\ {objs'[t].cls : t \in Range(TermsAfter(p))} = {"Electronic", "Vibrations"}
                  /\ \A t \in Range(TermsAfter(p)) : objs'[t].ninit = 1
           /\ \A p \in DOMAIN pfs :
                  /\ TermsAfter(p) = lists[pfs[p].terms]
                  /\ \A t \in Range(lists[pfs[p].terms]) : objs'[t] = objs[t]]_vars

\* two PartFun objects, both built without a terms argument
C24_Witness ==
    /\ Len(pfs) = 2 /\ \A p \in DOMAIN pfs : IsNone(pfs[p].given)
    /\ ret.op = "PartFun" /\ ret.ok /\ ret.arg.kind = "none"

-----------------------------------------------------------------------------
(* The classical oscillators.                                              *)

\* C25: in classical mode and for T > 0 the helper0 of a mode is
\* T^n * ln(k T / (2 pi nu freq_scaling)), freq_scaling in the denominator and
\* zp_scaling without effect, helper1 is T^(n-1) and helper2 is -T^(n-2).
C25_ClassicalHelpers ==
    ret.op = "vibrations" /\ ret.classical /\ ret.temp # RatZero =>
        /\ ret.res.ok
        /\ DOMAIN ret.res.v = DOMAIN ret.freqs
        /\ \A i \in DOMAIN ret.freqs :
               ret.res.v[i] =
                   CASE ret.K = 0 ->
                            VScale(Pow(ret.temp, ret.n),
                                   VLog(Mono(RatDiv(ret.temp,
                                                    RatMul(Rat(2 * ret.freqs[i]),
                                                           ret.freq_scaling)),
                                             1, -1, 0, 0)))
                     [] ret.K = 1 -> VRat(Pow(ret.temp, ret.n - 1))
                     [] ret.K = 2 -> VNeg(VRat(Pow(ret.temp, ret.n - 2)))

-----------------------------------------------------------------------------
(* The discrete levels at T = 0.                                           *)

\* the lowest level of the array and the number of levels equal to it
GroundLevel(levels) == CHOOSE e \in Range(levels) : \A x \in Range(levels) : e <= x
GroundDegeneracy(levels) == Cardinality({i \in DOMAIN levels : levels[i] = GroundLevel(levels)})

\* C26: helper0_levels(0, n, levels) is T^n * ln(g) - T^(n-1) * E0 / k at
\* T = 0, E0 the lowest level and g its degeneracy, so that
\* -k * helper0_levels(0, 1, levels) is E0; the degeneracy count ends with
\* 1 <= g <= the number of levels.
C26_LevelsAtZero ==
    ret.op = "helper0_levels" /\ ret.temp = RatZero =>
        LET E0 == GroundLevel(ret.energy_levels)
            g == degeneracy_loop(ret.energy_levels, 1)
        IN  /\ g = GroundDegeneracy(ret.energy_levels)
            /\ 1 <= g /\ g <= Len(ret.energy_levels)
            /\ ret.n >= 1 =>
                   /\ ret.res = Ok(VSub(VScale(Pow(RatZero, ret.n), VLog(MonoRat(Rat(g)))),
                                        VDivK(VRat(RatMul(Pow(RatZero, ret.n - 1), Rat(E0))))))
                   /\ ret.n = 1 => RMulK(RScale(Rat(-1), ret.res)) = Ok(VRat(Rat(E0)))

-----------------------------------------------------------------------------
(* The symmetry number of the external rotation.                           *)

\* C27: after the initialization of an ExtRot term against a non-periodic nma
\* its symmetry number is the user's value when that is not 0, otherwise the
\* value of the nma the PartFun was built from when that is not 0, otherwise
\* the computed one (rotsym) of that nma.
C27_SymmetryNumberResolved ==
    Constructed /\ "rotational" \in DOMAIN pfs[Len(pfs)].attrs =>
        LET pf == pfs[Len(pfs)]
            r == Get(pf.attrs["rotational"])
            given == TermTemplates[user[r]].symmetry_number
            nma == NMAs[pf.nma]
        IN  objs[r].symmetry_number =
                IF given # 0 THEN given
                ELSE IF nma.symmetry_number # 0 THEN nma.symmetry_number
                     ELSE nma.rotsym

-----------------------------------------------------------------------------
(* The layout of dump_values.                                              *)

\* the rows of values in the printed parts from position i on, row the values
\* of the line being read: a line break ends a row
RECURSIVE RowsOf(_, _, _)
RowsOf(out, i, row) ==
    IF i > Len(out) THEN <<row>>
    ELSE IF out[i].kind = "break" THEN <<row>> \o RowsOf(out, i + 1, << >>)
    ELSE IF out[i].kind = "value" THEN RowsOf(out, i + 1, Append(row, out[i].value))
    ELSE RowsOf(out, i + 1, row)

RECURSIVE Concat(_)
Concat(rows) == IF rows = << >> THEN << >> ELSE rows[1] \o Concat(Tail(rows))

\* C28: dump_values writes nothing for an empty array; for N >= 1 values it
\* writes the label line once and then the N values in their order in
\* ceil(N / num_col) rows, every row but the last of num_col values and the
\* last of 1 to num_col values; num_col is 8 when it is not given.
C28_DumpValuesLayout ==
    ret.op = "dump_values" =>
        LET N == Len(ret.values)
            num_col == IF IsNone(ret.num_col) THEN 8 ELSE Get(ret.num_col)
            rows == RowsOf(ret.out, 3, << >>)
        IN  /\ N = 0 => ret.out = << >>
            /\ N >= 1 =>
                   /\ ret.out[1].kind = "label" /\ ret.out[2].kind = "indent"
                   /\ \A i \in 2..Len(ret.out) : ret.out[i].kind # "label"
                   /\ Len(rows) = (N + num_col - 1) \div num_col
                   /\ \A r \in 1..(Len(rows) - 1) : Len(rows[r]) = num_col
                   /\ Len(rows[Len(rows)]) \in 1..num_col
                   /\ Concat(rows) = ret.values

\* eight values written with the default num_col: one full row and no empty one
C28_Witness ==
    /\ ret.op = "dump_values" /\ IsNone(ret.num_col) /\ Len(ret.values) = 8
    /\ Len(ret.out) = 10 /\ ret.out[10] = [kind |-> "value", value |-> 80]

-----------------------------------------------------------------------------
(* The attributes of a PartFun.                                            *)

\* C29: after a successful PartFun construction, for every term t of pf.terms
\* the attribute of pf named t.name is t itself, while pf.terms, pf.energy,
\* pf.title, pf.name and helper0, helper1, helper2 are the term collection,
\* the reference energy, the title, "total" and the summing methods.
C29_TermAttributes ==
    Constructed =>
        LET pf == pfs[Len(pfs)]
            terms == lists[pf.terms]
        IN  /\ \A i \in DOMAIN terms :
                   PartFun_getattr(pf, objs[terms[i]].name) = [kind |-> "term", id |-> terms[i]]
            /\ PartFun_getattr(pf, "terms") = [kind |-> "list", id |-> pf.terms]
            /\ PartFun_getattr(pf, "energy") = [kind |-> "value", v |-> NMAs[pf.nma].energy]
            /\ PartFun_getattr(pf, "title") = [kind |-> "value", v |-> NMAs[pf.nma].title]
            /\ PartFun_getattr(pf, "name") = [kind |-> "value", v |-> "total"]
            /\ \A m \in {"helper0", "helper1", "helper2"} :
                   PartFun_getattr(pf, m) = [kind |-> "method", name |-> m]

====
